---- MODULE Spec2Model ----
(***************************************************************************)
(* Request-scoped telemetry of the Next.js application: the withTelemetry  *)
(* request wrapper (lib/telemetry/middleware.ts), the scoped-run helpers   *)
(* and active-span mutators (lib/telemetry/tracer.ts), the HTTP metric     *)
(* recorders (lib/telemetry/metrics.ts) and the correlated logger          *)
(* (lib/telemetry/logger.ts, lib/telemetry/otel-logger.ts), the batched   *)
(* span sink, the sampler and the SIGTERM listener that initTelemetry      *)
(* sets up, the instruments of lib/telemetry/metrics.ts, the metrics-only  *)
(* wrapper withMetrics, and the client-telemetry endpoint                  *)
(* (app/api/telemetry/route.ts).                                           *)
(*                                                                         *)
(* Execution model: one JavaScript event loop.  A synchronous stretch of   *)
(* code is one action; a request suspends at its awaits, so the actions of *)
(* concurrently served requests interleave.  The active context is the     *)
(* one the OpenTelemetry context manager keeps per asynchronous call chain *)
(* (ctx[r]).  Span ids are <<request, ordinal>>; trace ids are             *)
(* <<"t", request, ordinal>> of the root span: an idealisation of the      *)
(* SDK's random 64/128-bit ids, which are taken to be collision free.      *)
(***************************************************************************)
EXTENDS Integers, Sequences, FiniteSets, TLC

VARIABLES
    pc,        \* pc[r]: "idle" | "handler" | "settled" | "done"
    call,      \* call[r]: the invocation's path, skip decision and server span
    ctx,       \* ctx[r]: stack of active span ids of r's asynchronous chain
    spans,     \* spans[r]: the spans created by code running for request r
    logs,      \* logs[r]: log records handed to the logger by r's code
    samples,   \* samples[r]: metric measurements recorded by r's code
    hist,      \* hist[r]: the wrapper's steps for r, in execution order
    outcome,   \* outcome[r]: how the wrapped business handler settled
    result,    \* result[r]: how the promise of the wrapped call settled
    ops,       \* telemetry calls made by handlers so far (bounded)
    pending,   \* pending[r]: exception propagating inside the handler
    queue,     \* the batched span sink: closed spans waiting for export
    exported,  \* the export calls made so far, in order
    dropped,   \* closed spans the sink refused because its queue was full
    timer,     \* ticks since the sink's delay timer was armed, -1 if not armed
    exporting, \* an export call made by the sink itself is in flight
    sampler,   \* the sampler the tracer provider was built with
    ratio,     \* TELEMETRY_CONFIG.sampling.ratio, in percent
    rand,      \* the random draw that the next trace id carries, in percent
    proc,      \* "running" | "draining" (SIGTERM handled) | "exited"
    drain,     \* the promise of sdk.shutdown(): "none" | "pending" | "fulfilled" | "rejected"
    console,   \* what the SIGTERM handler wrote with console.log / console.error
    exitCode,  \* the argument of process.exit, -1 before it is called
    ingest,    \* the invocation of handleTelemetry (POST /api/telemetry)
    meter,     \* the instruments created on the meter, the module's cached
               \* instruments and the instruments handed to callers
    eventQueue,   \* hooks.ts: the client's events waiting to be sent
    flushTimeout, \* hooks.ts: the handle of the last timer set, 0 for null
    timers,       \* the browser's pending timers that call flushEvents
    sent,         \* the payloads handed to sendBeacon or fetch, in order
    queued,       \* every event passed to queueEvent so far, in order
    now,          \* the browser's clock, in ticks
    page,         \* "visible" | "hidden" | "unloaded"
    timed         \* the call of metrics.withMetrics(fn, histogram, attributes)

sinkVars == <<queue, exported, dropped, timer, exporting>>

\* the state of the process that outlives a request
samplingVars == <<sampler, ratio, rand>>
shutdownVars == <<proc, drain, console, exitCode>>
\* the state of the page in the browser
clientVars == <<eventQueue, flushTimeout, timers, sent, queued, now, page>>
\* the state of the modules outside the request wrappers
moduleVars == <<clientVars, timed>>
processVars == <<samplingVars, shutdownVars, ingest, meter, moduleVars>>

vars == <<pc, call, ctx, spans, logs, samples, hist, outcome, result, ops, pending, sinkVars,
          processVars>>

---------------------------------------------------------------------------
(* Bounds of the model *)

\* nesting depth of traceAsync calls inside one handler
MaxDepth == 2
\* telemetry calls the handlers make in all
MaxHandlerOps == 2

Requests == {"A", "B"}

---------------------------------------------------------------------------
(* Values *)

NoSpan == <<>>
NoThrow == [type |-> "none", message |-> <<"none">>]
Undefined == <<"undefined">>

\* values a handler can throw: an Error object, a non-Error value (a thrown
\* string has no .message), and null/undefined (Promise.reject())
ErrBoom == [type |-> "Error", message |-> <<"boom">>]
StrThrown == [type |-> "string", message |-> Undefined]
NullishThrown == [type |-> "nullish", message |-> Undefined]
Thrown == {ErrBoom, StrThrown, NullishThrown}

\* the TypeError raised by reading a property of null/undefined
TypeErr == [type |-> "Error", message |-> <<"TypeError">>]
\* the error raised by a faulty telemetry call
FaultErr == [type |-> "Error", message |-> <<"telemetry fault">>]

PathUsers == <<"api", "users">>
PathHealth == <<"health", "live">>
Paths == {PathUsers, PathHealth}
\* options.skipPaths of the wrapped handlers
SkipPaths == {<<"health">>}

\* status codes a handler answers with (both sides of the 400 and 500 limits)
StatusCodes == {200, 399, 400, 404, 500}
\* statusCode >= 400 marks an error (middleware.ts:131, metrics.ts:183)
ErrorStatusMin == 400
\* the status recorded for a thrown error (middleware.ts:174)
SyntheticErrorStatus == 500

\* TELEMETRY_CONFIG.sampling.ratio, in percent: 0.1 in production, else 1.0
RatioProduction == 10
RatioDevelopment == 100
Ratios == {RatioProduction, RatioDevelopment}

\* the random part of a trace id, as the percentile a ratio is compared with
Draws == {5, 50}

\* new NodeSDK({...}) is given no sampler: the tracer provider builds its
\* sampler from OTEL_TRACES_SAMPLER and OTEL_TRACES_SAMPLER_ARG of the
\* process environment, parentbased_always_on when they are not set
DefaultSampler == [name |-> "always_on", parentBased |-> TRUE, arg |-> RatioDevelopment]
EnvSamplers ==
    [name : {"always_on", "always_off"}, parentBased : BOOLEAN, arg : {RatioDevelopment}]
    \cup [name : {"traceidratio"}, parentBased : BOOLEAN, arg : {RatioProduction}]

ZeroTraceId == <<"00000000000000000000000000000000">>
ZeroSpanId == <<"0000000000000000">>

---------------------------------------------------------------------------
(* Spans: the state the OpenTelemetry SDK keeps per span *)

SpanAt(S, id) == S[id[1]][id[2]]

PutSpan(S, id, sp) == [S EXCEPT ![id[1]][id[2]] = sp]

\* a sampler that decides every span by itself, from a draw of its own
ShouldSampleEverySpan(smp, S, parent, draw) ==
    CASE smp.name = "always_on" -> TRUE
      [] smp.name = "always_off" -> FALSE
      [] smp.name = "traceidratio" -> rand < smp.arg

\* Sampler.shouldSample at span creation: a parent-based sampler gives a
\* child its parent's decision and decides at the root only; the ratio
\* sampler compares the draw of the trace id against its own ratio.
\* (What the SDK leaves out for a span that is not sampled is not modelled:
\* every specification but SpecSampling runs with the default sampler, which
\* samples every span.)
ShouldSample(smp, S, parent, draw) ==
    IF smp.parentBased /\ parent # NoSpan THEN SpanAt(S, parent).sampled
    ELSE CASE smp.name = "always_on" -> TRUE
           [] smp.name = "always_off" -> FALSE
           [] smp.name = "traceidratio" -> draw < smp.arg

\* the draw of the trace a new span belongs to
TraceDraw(S, parent) == IF parent = NoSpan THEN rand ELSE SpanAt(S, parent).draw

\* a span that starts a trace of its own whatever the active span is
NewSpanRecordOwnTrace(S, r, kind, parent) ==
    [ id |-> <<r, Len(S[r]) + 1>>,
      trace |-> <<"t", r, Len(S[r]) + 1>>,
      parent |-> parent,
      kind |-> kind,
      draw |-> rand,
      sampled |-> ShouldSample(sampler, S, NoSpan, rand),
      status |-> "unset",
      message |-> Undefined,
      httpStatus |-> 0,
      attrs |-> {},
      events |-> <<>>,
      ended |-> FALSE,
      endCalls |-> 0,
      exports |-> 0 ]

\* tracer.startActiveSpan: the parent is the active span of the calling
\* chain; a child inherits the parent's trace, a root starts a new one
NewSpanRecord(S, r, kind, parent) ==
    [ id |-> <<r, Len(S[r]) + 1>>,
      trace |-> IF parent = NoSpan THEN <<"t", r, Len(S[r]) + 1>>
                ELSE SpanAt(S, parent).trace,
      parent |-> parent,
      kind |-> kind,
      draw |-> TraceDraw(S, parent),
      sampled |-> ShouldSample(sampler, S, parent, TraceDraw(S, parent)),
      status |-> "unset",
      message |-> Undefined,
      httpStatus |-> 0,
      attrs |-> {},
      events |-> <<>>,
      ended |-> FALSE,
      endCalls |-> 0,
      exports |-> 0 ]

\* a setStatus that leaves an error status alone once one has been set
SetStatusFirstWins(sp, code, msg) ==
    IF sp.ended \/ sp.status = "error" THEN sp ELSE [sp EXCEPT !.status = code, !.message = msg]

\* span.setStatus: the last write before the span ends is the one kept
SetStatus(sp, code, msg) ==
    IF sp.ended THEN sp ELSE [sp EXCEPT !.status = code, !.message = msg]

\* span.setAttribute(http.status_code, s)
SetHttpStatusAttribute(sp, s) ==
    IF sp.ended THEN sp ELSE [sp EXCEPT !.httpStatus = s]

\* span.setAttributes(attributes); the values are those of the request
\* `by` whose code makes the call
SetAttributes(sp, by) ==
    IF sp.ended THEN sp ELSE [sp EXCEPT !.attrs = @ \cup {by}]

\* span.addEvent(name, attributes), called by the code of request `by`
AddEvent(sp, name, by) ==
    IF sp.ended THEN sp ELSE [sp EXCEPT !.events = Append(@, <<name, by>>)]

\* span.recordException(err): an exception event for an Error or a string;
\* null/undefined is reported to the diagnostics logger and adds nothing
SpanRecordException(sp, err, by) ==
    IF err.type \in {"Error", "string"} THEN AddEvent(sp, "exception", by) ELSE sp

\* an end() that closes and hands over the span at every call
EndSpanAgain(sp) ==
    [sp EXCEPT !.ended = TRUE, !.endCalls = @ + 1, !.exports = @ + 1]

\* span.end(): the first call closes the span and hands it to the span
\* processors; a later call changes nothing
EndSpan(sp) ==
    IF sp.ended THEN [sp EXCEPT !.endCalls = @ + 1]
    ELSE [sp EXCEPT !.ended = TRUE, !.endCalls = @ + 1, !.exports = @ + 1]

---------------------------------------------------------------------------
(* Active context and log correlation *)

\* one process-wide context stack: the stack of another chain that has a
\* span active is seen in place of the caller's own
SharedContext(r) ==
    IF \E q \in Requests \ {r} : ctx[q] # <<>>
    THEN ctx[CHOOSE q \in Requests \ {r} : ctx[q] # <<>>]
    ELSE ctx[r]

\* context.active() of request r's asynchronous call chain
CurrentContext(r) == ctx[r]

\* trace.getActiveSpan()
GetActiveSpan(r) ==
    IF CurrentContext(r) = <<>> THEN NoSpan
    ELSE CurrentContext(r)[Len(CurrentContext(r))]

\* startActiveSpan runs its callback in a context in which the span is active
WithSpanActive(stack, id) == Append(stack, id)

\* a callback's end that leaves the callback's context in place
ContextKept(stack) == stack

\* the callback of startActiveSpan is over: the caller's context is active
ContextRestored(stack) == SubSeq(stack, 1, Len(stack) - 1)

\* a lookup that has no ids to give when no span is active
GetTraceContextNoSentinel(S, r) ==
    IF GetActiveSpan(r) # NoSpan
    THEN [traceId |-> SpanAt(S, GetActiveSpan(r)).trace, spanId |-> GetActiveSpan(r)]
    ELSE [traceId |-> Undefined, spanId |-> Undefined]

\* getTraceContext(): the ids of the active span, else the all-zero ids
GetTraceContext(S, r) ==
    IF GetActiveSpan(r) # NoSpan
    THEN [traceId |-> SpanAt(S, GetActiveSpan(r)).trace, spanId |-> GetActiveSpan(r)]
    ELSE [traceId |-> ZeroTraceId, spanId |-> ZeroSpanId]

\* withTraceContext(context) followed by pinoLogger[level](..., message)
WithTraceContext(S, r, level, msg) ==
    [ level |-> level, msg |-> msg,
      trace_id |-> GetTraceContext(S, r).traceId,
      span_id |-> GetTraceContext(S, r).spanId ]

\* a derivation that takes 500 itself for a client error
ResponseLogLevelAbove(s) ==
    IF s > 500 THEN "error" ELSE IF s >= ErrorStatusMin THEN "warn" ELSE "info"

\* logHttpResponse: the level derived from the status code
ResponseLogLevel(s) ==
    IF s >= 500 THEN "error" ELSE IF s >= ErrorStatusMin THEN "warn" ELSE "info"

---------------------------------------------------------------------------
(* Metrics *)

\* a class taken from the last two digits
StatusClassRemainder(s) == <<s % 100, "xx">>

\* `${Math.floor(statusCode / 100)}xx`
StatusClass(s) == <<s \div 100, "xx">>

NoClass == <<>>

Measurement(inst, value, route, s, class) ==
    [inst |-> inst, value |-> value, route |-> route, status |-> s, class |-> class]

\* recordHttpRequest({method, route, statusCode, duration})
RecordHttpRequest(route, s) ==
    <<Measurement("http.server.request.count", 1, route, s, StatusClass(s)),
      Measurement("http.server.request.duration", 0, route, s, StatusClass(s))>>
    \o (IF s >= ErrorStatusMin
        THEN <<Measurement("http.server.error.count", 1, route, s, StatusClass(s))>>
        ELSE <<>>)

\* an increment that carries no route tag
IncrementActiveRequestsNoRoute(route) ==
    <<Measurement("http.server.active_requests", 1, <<>>, 0, NoClass)>>

\* incrementActiveRequests({'http.route': path})
IncrementActiveRequests(route) ==
    <<Measurement("http.server.active_requests", 1, route, 0, NoClass)>>

\* decrementActiveRequests({'http.route': path})
DecrementActiveRequests(route) ==
    <<Measurement("http.server.active_requests", -1, route, 0, NoClass)>>

RECURSIVE SumOf(_, _, _)
\* the value of an instrument for a route after the measurements ms
SumOf(ms, inst, route) ==
    IF ms = <<>> THEN 0
    ELSE (IF Head(ms).inst = inst /\ Head(ms).route = route THEN Head(ms).value ELSE 0)
         + SumOf(Tail(ms), inst, route)

---------------------------------------------------------------------------
(* withTelemetry: the code after `await handler(request, context)` *)

\* what a synchronous stretch of request r's code reads and writes
Stretch(r) ==
    [spans |-> spans, logs |-> logs[r], samples |-> samples[r], hist |-> hist[r]]

Step(name, code, msg, s, level) ==
    [name |-> name, code |-> code, msg |-> msg, status |-> s, level |-> level]

\* a derivation that lets 400 itself pass as ok
HttpSpanStatusAbove(s) ==
    IF s > ErrorStatusMin THEN [code |-> "error", message |-> <<"HTTP", s>>]
    ELSE [code |-> "ok", message |-> Undefined]

\* the span status the wrapper derives from the response status
HttpSpanStatus(s) ==
    IF s >= ErrorStatusMin THEN [code |-> "error", message |-> <<"HTTP", s>>]
    ELSE [code |-> "ok", message |-> Undefined]

\* the statements of the try block after the handler returned status s
TrySteps(s) ==
    << Step("setAttribute", "", "", s, ""),
       Step("setStatus", HttpSpanStatus(s).code, HttpSpanStatus(s).message, s, ""),
       Step("recordHttpRequest", "", "", s, ""),
       Step("logHttpResponse", "", "HTTP response sent", s, ResponseLogLevel(s)) >>

\* the statements of the catch block that follow span.recordException(err),
\* for an err whose .message can be read
CatchSteps(err) ==
    << Step("setStatus", "error", err.message, 0, ""),
       Step("recordHttpRequest", "", "", SyntheticErrorStatus, ""),
       Step("logError", "", "Unhandled error in API route", 0, "error") >>

\* a finally block that leaves the counter alone
FinallyStepsNoDecrement == << Step("end", "", "", 0, "") >>

\* the statements of the finally block
FinallySteps ==
    << Step("end", "", "", 0, ""), Step("decrement", "", "", 0, "") >>

\* one statement of the wrapper, acting on the server span of request r
ApplyStep(r, st, step) ==
    LET id == call[r].server
        sp == SpanAt(st.spans, id)
        done == [st EXCEPT !.hist = Append(@, step.name)]
    IN  CASE step.name = "setAttribute" ->
               [done EXCEPT !.spans = PutSpan(@, id, SetHttpStatusAttribute(sp, step.status))]
          [] step.name = "setStatus" ->
               [done EXCEPT !.spans = PutSpan(@, id, SetStatus(sp, step.code, step.msg))]
          [] step.name = "recordHttpRequest" ->
               [done EXCEPT !.samples = @ \o RecordHttpRequest(call[r].path, step.status)]
          [] step.name \in {"logHttpResponse", "logError"} ->
               [done EXCEPT !.logs = Append(@, WithTraceContext(st.spans, r, step.level, step.msg))]
          [] step.name = "recordException" ->
               [done EXCEPT !.spans = PutSpan(@, id, SpanRecordException(sp, step.msg, r))]
          [] step.name = "end" ->
               [done EXCEPT !.spans = PutSpan(@, id, EndSpan(sp))]
          [] step.name = "decrement" ->
               [done EXCEPT !.samples = @ \o DecrementActiveRequests(call[r].path)]

RECURSIVE RunSteps(_, _, _, _)
\* runs the statements in order; the call named f throws instead of acting
RunSteps(r, st, steps, f) ==
    IF steps = <<>> THEN [st |-> st, exc |-> NoThrow]
    ELSE IF Head(steps).name = f THEN [st |-> st, exc |-> FaultErr]
    ELSE RunSteps(r, ApplyStep(r, st, Head(steps)), Tail(steps), f)

\* try { ... } after the handler settled
TryBlock(r, st, f) ==
    IF outcome[r].kind = "throw"
    THEN [st |-> st, exc |-> outcome[r].val]
    ELSE LET run == RunSteps(r, st, TrySteps(outcome[r].status), f)
         IN  IF run.exc = NoThrow
             THEN [st |-> [run.st EXCEPT !.hist = Append(@, "return")], exc |-> NoThrow]
             ELSE run

\* catch (error) { ... throw error }: `err.message` of null/undefined throws
CatchBlock(r, st, err, f) ==
    LET rec == ApplyStep(r, st, Step("recordException", "", err, 0, ""))
    IN  IF err.type = "nullish" THEN [st |-> rec, exc |-> TypeErr]
        ELSE LET run == RunSteps(r, rec, CatchSteps(err), f)
             IN  IF run.exc = NoThrow
                 THEN [st |-> [run.st EXCEPT !.hist = Append(@, "rethrow")], exc |-> err]
                 ELSE run

\* finally { span.end(); decrementActiveRequests(...) }
FinallyBlock(r, st, f) == RunSteps(r, st, FinallySteps, f)

\* the whole stretch: try, catch if something was thrown, finally.  A fault
\* f strikes the first call of that name; "none" is no fault
AfterHandler(r, f) ==
    LET t == TryBlock(r, Stretch(r), f)
        c == IF t.exc = NoThrow THEN t
             ELSE CatchBlock(r, t.st, t.exc, IF t.exc = FaultErr THEN "none" ELSE f)
        fin == FinallyBlock(r, c.st, f)
    IN  [ st |-> fin.st,
          result |-> IF fin.exc # NoThrow THEN [kind |-> "rejected", status |-> 0, val |-> fin.exc]
                     ELSE IF c.exc # NoThrow THEN [kind |-> "rejected", status |-> 0, val |-> c.exc]
                     ELSE [kind |-> "resolved", status |-> outcome[r].status, val |-> NoThrow] ]

---------------------------------------------------------------------------
(* The state of a request before its call *)

NoCall == [path |-> <<>>, skipped |-> FALSE, server |-> NoSpan, wrapper |-> "none", base |-> 0]
NoOutcome == [kind |-> "none", status |-> 0, val |-> NoThrow]
NoResult == [kind |-> "pending", status |-> 0, val |-> NoThrow]

---------------------------------------------------------------------------
(* withTelemetry: from the call of the wrapped handler to `await handler` *)

\* path.startsWith(skip)
StartsWith(path, skip) ==
    Len(skip) <= Len(path) /\ SubSeq(path, 1, Len(skip)) = skip

\* a skip test that wants the whole path to equal an entry
SkipMatchWholePath(path) == path \in SkipPaths

\* options.skipPaths?.some(skip => path.startsWith(skip))
SkipMatch(path) == \E skip \in SkipPaths : StartsWith(path, skip)

\* a request log written inside the callback of startActiveSpan, when the
\* server span sp is already the active one
LogHttpRequestInsideSpan(S, r, sp) ==
    [ level |-> "info", msg |-> "HTTP request received",
      trace_id |-> sp.trace, span_id |-> sp.id ]

\* logHttpRequest({...}): logger.info(..., 'HTTP request received'), called
\* before tracer.startActiveSpan, so that the server span sp is not yet
\* active and the record is stamped from the context of the caller
LogHttpRequest(S, r, sp) == WithTraceContext(S, r, "info", "HTTP request received")

WithTelemetryCall(r) ==
    \E p \in Paths :
        /\ pc[r] = "idle"
        /\ pc' = [pc EXCEPT ![r] = "handler"]
        /\ IF SkipMatch(p)
           THEN /\ call' = [call EXCEPT ![r] = [path |-> p, skipped |-> TRUE, server |-> NoSpan,
                                                      wrapper |-> "withTelemetry",
                                                      base |-> Len(ctx[r])]]
                /\ UNCHANGED <<ctx, spans, logs, samples, hist>>
           ELSE LET sp == NewSpanRecord(spans, r, "server", GetActiveSpan(r))
                IN  /\ samples' = [samples EXCEPT ![r] = @ \o IncrementActiveRequests(p)]
                    /\ logs' = [logs EXCEPT ![r] =
                                   Append(@, LogHttpRequest(spans, r, sp))]
                    /\ spans' = [spans EXCEPT ![r] = Append(@, sp)]
                    /\ ctx' = [ctx EXCEPT ![r] = WithSpanActive(@, sp.id)]
                    /\ call' = [call EXCEPT ![r] = [path |-> p, skipped |-> FALSE, server |-> sp.id,
                                                           wrapper |-> "withTelemetry",
                                                           base |-> Len(ctx[r]) + 1]]
                    /\ hist' = [hist EXCEPT ![r] =
                                   <<"increment", "logHttpRequest", "startActiveSpan", "handler">>]
        /\ UNCHANGED <<outcome, result, ops, pending, sinkVars, processVars>>

---------------------------------------------------------------------------
(* The business handler: any code that uses the telemetry API and awaits *)

\* spans the handler has opened with traceAsync and not yet closed
Depth(r) == Len(ctx[r]) - call[r].base

InHandler(r) == pc[r] = "handler" /\ pending[r] = NoThrow /\ ops < MaxHandlerOps

\* traceAsync(name, fn): startActiveSpan, then fn runs with the span active
TraceAsyncEnter(r) ==
    /\ InHandler(r)
    /\ Depth(r) < MaxDepth
    /\ LET sp == NewSpanRecord(spans, r, "internal", GetActiveSpan(r))
       IN  /\ spans' = [spans EXCEPT ![r] = Append(@, sp)]
           /\ ctx' = [ctx EXCEPT ![r] = WithSpanActive(@, sp.id)]
    /\ ops' = ops + 1
    /\ UNCHANGED <<pc, call, logs, samples, hist, outcome, result, pending, sinkVars, processVars>>

\* a scoped run that ends its span after the normal return only
ScopedCloseNoFinally(sp, v, by) ==
    IF v = NoThrow THEN EndSpan(SetStatus(sp, "ok", Undefined))
    ELSE IF v.type = "Error"
         THEN SetStatus(SpanRecordException(sp, v, by), "error", v.message)
         ELSE sp

\* the try/catch/finally of traceSync and traceAsync, on the span they opened
ScopedClose(sp, v, by) ==
    EndSpan(IF v = NoThrow THEN SetStatus(sp, "ok", Undefined)
            ELSE IF v.type = "Error"
                 THEN SetStatus(SpanRecordException(sp, v, by), "error", v.message)
                 ELSE sp)

\* traceAsync: fn's promise settles (v = NoThrow: resolved), the span is
\* closed and the context of the caller is active again
TraceAsyncSettle(r) ==
    /\ pc[r] = "handler"
    /\ Depth(r) > 0
    /\ \E v \in (IF pending[r] = NoThrow THEN {NoThrow} \cup Thrown ELSE {pending[r]}) :
          LET id == ctx[r][Len(ctx[r])]
          IN  /\ spans' = PutSpan(spans, id, ScopedClose(SpanAt(spans, id), v, r))
              /\ pending' = [pending EXCEPT ![r] = v]
    /\ ctx' = [ctx EXCEPT ![r] = ContextRestored(@)]
    /\ UNCHANGED <<pc, call, logs, samples, hist, outcome, result, ops, sinkVars, processVars>>

\* traceSync(name, fn): one synchronous stretch.  fn runs with the new span
\* active; body tells whether fn calls addSpanEvent before it returns or throws
TraceSyncRun(r, body) ==
    /\ InHandler(r)
    /\ \E v \in {NoThrow} \cup Thrown :
          LET sp == NewSpanRecord(spans, r, "internal", GetActiveSpan(r))
              inner == WithSpanActive(CurrentContext(r), sp.id)
              opened == [spans EXCEPT ![r] = Append(@, sp)]
              target == inner[Len(inner)]
              ran == IF body = "addSpanEvent"
                     THEN PutSpan(opened, target, AddEvent(SpanAt(opened, target), "event", r))
                     ELSE opened
          IN  /\ spans' = PutSpan(ran, sp.id, ScopedClose(SpanAt(ran, sp.id), v, r))
              /\ ctx' = [ctx EXCEPT ![r] = ContextRestored(inner)]
              /\ pending' = [pending EXCEPT ![r] = v]
    /\ ops' = ops + 1
    /\ UNCHANGED <<pc, call, logs, samples, hist, outcome, result, sinkVars, processVars>>

\* traceSync with an fn that uses no telemetry helper
TraceSync(r) == TraceSyncRun(r, "none")

\* traceSync with an fn that calls addSpanEvent
TraceSyncWithEvent(r) == TraceSyncRun(r, "addSpanEvent")

\* addSpanAttributes / addSpanEvent / recordException on the active span
MutateSpan(sp, kind, by) ==
    CASE kind = "addSpanAttributes" -> SetAttributes(sp, by)
      [] kind = "addSpanEvent" -> AddEvent(sp, "event", by)
      [] kind = "recordException" ->
           SetStatus(SpanRecordException(sp, ErrBoom, by), "error", <<"Failed">>)

MutateActiveSpan(r) ==
    /\ InHandler(r)
    /\ \E kind \in {"addSpanAttributes", "addSpanEvent", "recordException"} :
          IF GetActiveSpan(r) # NoSpan
          THEN spans' = PutSpan(spans, GetActiveSpan(r),
                                MutateSpan(SpanAt(spans, GetActiveSpan(r)), kind, r))
          ELSE UNCHANGED spans
    /\ ops' = ops + 1
    /\ UNCHANGED <<pc, call, ctx, logs, samples, hist, outcome, result, pending, sinkVars, processVars>>

\* the severities of Logger and of emitOtelLog's severityMap
LogLevels == {"debug", "info", "warn", "error", "fatal"}

\* recordException(error, message?) with any caught value: span.recordException(error),
\* then span.setStatus with `message || error.message`, whose right side is
\* read only when no message is given and throws for null/undefined
RecordExceptionCall(r) ==
    /\ InHandler(r)
    /\ \E err \in Thrown, withMessage \in BOOLEAN :
          IF GetActiveSpan(r) = NoSpan
          THEN UNCHANGED <<spans, pending>>
          ELSE LET id == GetActiveSpan(r)
                   rec == SpanRecordException(SpanAt(spans, id), err, r)
               IN  IF ~withMessage /\ err.type = "nullish"
                   THEN /\ spans' = PutSpan(spans, id, rec)
                        /\ pending' = [pending EXCEPT ![r] = TypeErr]
                   ELSE /\ spans' = PutSpan(spans, id,
                               SetStatus(rec, "error",
                                         IF withMessage THEN <<"Failed">> ELSE err.message))
                        /\ UNCHANGED pending
    /\ ops' = ops + 1
    /\ UNCHANGED <<pc, call, ctx, logs, samples, hist, outcome, result, sinkVars, processVars>>

\* logger.debug / info / warn / error / fatal(context, message) inside the
\* handler: pinoLogger[level](withTraceContext(context), message)
LoggerLog(r, level) ==
    /\ InHandler(r)
    /\ logs' = [logs EXCEPT ![r] = Append(@, WithTraceContext(spans, r, level, "handler"))]
    /\ ops' = ops + 1
    /\ UNCHANGED <<pc, call, ctx, spans, samples, hist, outcome, result, pending, sinkVars, processVars>>

\* logger.info(context, message) inside the handler
LoggerInfo(r) == LoggerLog(r, "info")

\* a Logger method of any severity
LoggerCall(r) == \E level \in LogLevels : LoggerLog(r, level)

\* emitOtelLog(level, message, attributes): the record handed to the
\* OpenTelemetry logger, with the ids getTraceContext() returns
EmitOtelLog(r) ==
    /\ InHandler(r)
    /\ \E level \in LogLevels :
          logs' = [logs EXCEPT ![r] =
                      Append(@, [ level |-> level, msg |-> "otel",
                                  trace_id |-> GetTraceContext(spans, r).traceId,
                                  span_id |-> GetTraceContext(spans, r).spanId ])]
    /\ ops' = ops + 1
    /\ UNCHANGED <<pc, call, ctx, spans, samples, hist, outcome, result, pending, sinkVars, processVars>>

\* log calls with an object of the caller, per request
MaxCallerLogs == 1

\* records of r made from an object of the caller
CallerLogs(r) == Cardinality({i \in DOMAIN logs[r] : "given" \in DOMAIN logs[r][i]})

\* two of the severities the route handlers log with; the merge of the
\* caller's object is the same for every severity
CallerLogLevels == {"info", "error"}

\* keys a caller can put in the context object of a log call
CallerKeys == {"trace_id", "span_id", "service.name", "userId"}

\* the value the caller gives to each of its keys
CallerValue == <<"caller">>

\* the context objects of the callers: any of the keys, each with the
\* caller's value
CallerContexts == {[k \in K |-> CallerValue] : K \in SUBSET CallerKeys}

\* TELEMETRY_CONFIG.serviceName
ServiceName == <<"nextjs-telem-app">>

\* a merge that lets the keys of the caller win: {trace_id, span_id, ...context}
WithTraceContextCallerLast(S, r, context) ==
    [k \in DOMAIN context \cup {"trace_id", "span_id"} |->
        IF k \in DOMAIN context THEN context[k]
        ELSE IF k = "trace_id" THEN GetTraceContext(S, r).traceId
        ELSE GetTraceContext(S, r).spanId]

\* withTraceContext(context): {...context, trace_id: traceId, span_id: spanId}
WithTraceContextOf(S, r, context) ==
    [k \in DOMAIN context \cup {"trace_id", "span_id"} |->
        IF k = "trace_id" THEN GetTraceContext(S, r).traceId
        ELSE IF k = "span_id" THEN GetTraceContext(S, r).spanId
        ELSE context[k]]

\* the attributes emitOtelLog gives to the record: {...attributes,
\* 'service.name': TELEMETRY_CONFIG.serviceName, trace_id: traceId, span_id: spanId}
OtelLogAttributes(S, r, attributes) ==
    [k \in DOMAIN attributes \cup {"service.name", "trace_id", "span_id"} |->
        IF k = "trace_id" THEN GetTraceContext(S, r).traceId
        ELSE IF k = "span_id" THEN GetTraceContext(S, r).spanId
        ELSE IF k = "service.name" THEN ServiceName
        ELSE attributes[k]]

\* a log record with its merged fields; given is the object the caller passed
LogRecordOf(level, msg, given, fields) ==
    [ level |-> level, msg |-> msg,
      trace_id |-> fields["trace_id"], span_id |-> fields["span_id"],
      given |-> given, fields |-> fields ]

\* logger[level](context, message) with a context object of the caller:
\* pinoLogger[level](withTraceContext(context), message)
LoggerCallWith(r) ==
    /\ InHandler(r)
    /\ CallerLogs(r) < MaxCallerLogs
    /\ \E level \in CallerLogLevels, context \in CallerContexts :
          logs' = [logs EXCEPT ![r] =
                      Append(@, LogRecordOf(level, "handler", context,
                                            WithTraceContextOf(spans, r, context)))]
    /\ ops' = ops + 1
    /\ UNCHANGED <<pc, call, ctx, spans, samples, hist, outcome, result, pending, sinkVars, processVars>>

\* emitOtelLog(level, message, attributes) with attributes of the caller
EmitOtelLogWith(r) ==
    /\ InHandler(r)
    /\ CallerLogs(r) < MaxCallerLogs
    /\ \E level \in CallerLogLevels, attributes \in CallerContexts :
          logs' = [logs EXCEPT ![r] =
                      Append(@, LogRecordOf(level, "otel", attributes,
                                            OtelLogAttributes(spans, r, attributes)))]
    /\ ops' = ops + 1
    /\ UNCHANGED <<pc, call, ctx, spans, samples, hist, outcome, result, pending, sinkVars, processVars>>

\* the handler's promise settles: a response, or a thrown value
HandlerSettle(r) ==
    /\ pc[r] = "handler"
    /\ Depth(r) = 0
    /\ \E o \in (IF pending[r] # NoThrow
                  THEN {[kind |-> "throw", status |-> 0, val |-> pending[r]]}
                  ELSE {[kind |-> "return", status |-> s, val |-> NoThrow] : s \in StatusCodes}
                       \cup {[kind |-> "throw", status |-> 0, val |-> v] : v \in Thrown}) :
          outcome' = [outcome EXCEPT ![r] = o]
    /\ pc' = [pc EXCEPT ![r] = "settled"]
    /\ hist' = [hist EXCEPT ![r] = IF call[r].skipped THEN @ ELSE Append(@, "settled")]
    /\ UNCHANGED <<call, ctx, spans, logs, samples, result, ops, pending, sinkVars, processVars>>

---------------------------------------------------------------------------
(* withTelemetry: the continuation after `await handler` *)

\* the telemetry calls made after the handler
FaultPoints ==
    {"setAttribute", "setStatus", "recordHttpRequest", "logHttpResponse", "end", "decrement"}

WithTelemetryResume(r, f) ==
    /\ pc[r] = "settled"
    /\ call[r].wrapper = "withTelemetry"
    /\ pc' = [pc EXCEPT ![r] = "done"]
    /\ IF call[r].skipped
       THEN /\ result' = [result EXCEPT ![r] =
                   IF outcome[r].kind = "throw"
                   THEN [kind |-> "rejected", status |-> 0, val |-> outcome[r].val]
                   ELSE [kind |-> "resolved", status |-> outcome[r].status, val |-> NoThrow]]
            /\ UNCHANGED <<ctx, spans, logs, samples, hist>>
       ELSE LET a == AfterHandler(r, f)
            IN  /\ spans' = a.st.spans
                /\ logs' = [logs EXCEPT ![r] = a.st.logs]
                /\ samples' = [samples EXCEPT ![r] = a.st.samples]
                /\ hist' = [hist EXCEPT ![r] = a.st.hist]
                /\ result' = [result EXCEPT ![r] = a.result]
                /\ ctx' = [ctx EXCEPT ![r] = ContextRestored(@)]
    /\ UNCHANGED <<call, outcome, ops, pending, sinkVars, processVars>>

\* every telemetry call does its work
Finish(r) == WithTelemetryResume(r, "none")

\* one telemetry call throws
FinishFault(r) ==
    /\ ~call[r].skipped
    /\ \E f \in FaultPoints : WithTelemetryResume(r, f)

---------------------------------------------------------------------------
(* withMetrics of middleware.ts: the wrapper that only records metrics *)

\* withMetrics(handler, routeName)(request): the timer is started and the
\* handler is called; the route tag is the routeName the wrapper was made with
WithMetricsCall(r) ==
    /\ pc[r] = "idle"
    /\ pc' = [pc EXCEPT ![r] = "handler"]
    /\ \E p \in Paths :
          call' = [call EXCEPT ![r] = [path |-> p, skipped |-> FALSE, server |-> NoSpan,
                                      wrapper |-> "withMetrics", base |-> Len(ctx[r])]]
    /\ hist' = [hist EXCEPT ![r] = <<"handler">>]
    /\ UNCHANGED <<ctx, spans, logs, samples, outcome, result, ops, pending, sinkVars,
                   processVars>>

\* a wrapper that records nothing when the handler throws
WithMetricsResumeNoCatch(r) ==
    /\ pc[r] = "settled"
    /\ call[r].wrapper = "withMetrics"
    /\ pc' = [pc EXCEPT ![r] = "done"]
    /\ IF outcome[r].kind = "return"
       THEN /\ samples' = [samples EXCEPT ![r] =
                              @ \o RecordHttpRequest(call[r].path, outcome[r].status)]
            /\ hist' = [hist EXCEPT ![r] = @ \o <<"recordHttpRequest", "return">>]
            /\ result' = [result EXCEPT ![r] =
                             [kind |-> "resolved", status |-> outcome[r].status, val |-> NoThrow]]
       ELSE /\ hist' = [hist EXCEPT ![r] = @ \o <<"rethrow">>]
            /\ result' = [result EXCEPT ![r] =
                             [kind |-> "rejected", status |-> 0, val |-> outcome[r].val]]
            /\ UNCHANGED samples
    /\ UNCHANGED <<call, ctx, spans, logs, outcome, ops, pending, sinkVars, processVars>>

\* the continuation after `await handler(request, context)`: the try block
\* records the response's status and returns the response; the catch block
\* records status 500 and throws what it caught
WithMetricsResume(r) ==
    /\ pc[r] = "settled"
    /\ call[r].wrapper = "withMetrics"
    /\ pc' = [pc EXCEPT ![r] = "done"]
    /\ IF outcome[r].kind = "return"
       THEN /\ samples' = [samples EXCEPT ![r] =
                              @ \o RecordHttpRequest(call[r].path, outcome[r].status)]
            /\ hist' = [hist EXCEPT ![r] = @ \o <<"recordHttpRequest", "return">>]
            /\ result' = [result EXCEPT ![r] =
                             [kind |-> "resolved", status |-> outcome[r].status, val |-> NoThrow]]
       ELSE /\ samples' = [samples EXCEPT ![r] =
                              @ \o RecordHttpRequest(call[r].path, SyntheticErrorStatus)]
            /\ hist' = [hist EXCEPT ![r] = @ \o <<"recordHttpRequest", "rethrow">>]
            /\ result' = [result EXCEPT ![r] =
                             [kind |-> "rejected", status |-> 0, val |-> outcome[r].val]]
    /\ UNCHANGED <<call, ctx, spans, logs, outcome, ops, pending, sinkVars, processVars>>

---------------------------------------------------------------------------
(* The batched span sink: the BatchSpanProcessor that initTelemetry puts in  *)
(* front of the OTLP trace exporter with TELEMETRY_CONFIG.batch.  One event  *)
(* loop: an append and a drain are each one synchronous stretch.  The        *)
(* numbers of the configuration (5000 ms, 512, 2048) are scaled down.        *)

\* TELEMETRY_CONFIG.batch.maxQueueSize
MaxQueueSize == 2
\* TELEMETRY_CONFIG.batch.maxExportBatchSize
MaxExportBatchSize == 2
\* TELEMETRY_CONFIG.batch.scheduledDelayMillis, in ticks of the clock
ScheduledDelay == 1
\* spans one request opens and ends
MaxSinkSpans == 2

Sink ==
    [queue |-> queue, exported |-> exported, dropped |-> dropped,
     timer |-> timer, exporting |-> exporting]

Min(a, b) == IF a <= b THEN a ELSE b

\* a drain that passes on one item less than it takes from the queue
FlushOneBatchLosesItem(s, cause) ==
    IF s.queue = <<>> THEN [s EXCEPT !.timer = -1]
    ELSE [s EXCEPT !.timer = -1,
                   !.queue = SubSeq(@, Min(Len(@), MaxExportBatchSize) + 1, Len(@)),
                   !.exported = Append(@, [items |-> SubSeq(s.queue, 1, Min(Len(s.queue), MaxExportBatchSize) - 1),
                                           cause |-> cause])]

\* one export call: the timer is cleared and the first maxExportBatchSize
\* items leave the queue and are passed to the exporter
FlushOneBatch(s, cause) ==
    IF s.queue = <<>> THEN [s EXCEPT !.timer = -1]
    ELSE [s EXCEPT !.timer = -1,
                   !.queue = SubSeq(@, Min(Len(@), MaxExportBatchSize) + 1, Len(@)),
                   !.exported = Append(@, [items |-> SubSeq(s.queue, 1, Min(Len(s.queue), MaxExportBatchSize)),
                                           cause |-> cause])]

\* a sink that exports on the timer only
MaybeStartTimerOnly(s, cause) ==
    IF s.exporting THEN s
    ELSE IF s.timer # -1 THEN s
    ELSE [s EXCEPT !.timer = 0]

\* after an append or a finished export: nothing while an export is in
\* flight; an export at once when a full batch is queued; else the delay
\* timer is armed unless it already runs
MaybeStartTimer(s, cause) ==
    IF s.exporting THEN s
    ELSE IF Len(s.queue) >= MaxExportBatchSize
         THEN [FlushOneBatch(s, cause) EXCEPT !.exporting = TRUE]
    ELSE IF s.timer # -1 THEN s
    ELSE [s EXCEPT !.timer = 0]

\* a sink that grows its queue without limit
AddToBufferUnbounded(s, item) ==
    MaybeStartTimer([s EXCEPT !.queue = Append(@, item)], "size")

\* a closed span is handed to the sink: refused when the queue is full
AddToBuffer(s, item) ==
    IF Len(s.queue) >= MaxQueueSize THEN [s EXCEPT !.dropped = Append(@, item)]
    ELSE MaybeStartTimer([s EXCEPT !.queue = Append(@, item)], "size")

RECURSIVE FlushAll(_)
\* forceFlush: export calls until the queue is empty
FlushAll(s) ==
    IF s.queue = <<>> THEN s ELSE FlushAll(FlushOneBatch(s, "flush"))

SetSink(s) ==
    /\ queue' = s.queue
    /\ exported' = s.exported
    /\ dropped' = s.dropped
    /\ timer' = s.timer
    /\ exporting' = s.exporting

requestVars == <<pc, call, ctx, logs, samples, hist, outcome, result, ops, pending, processVars>>

\* request r opens a span; its spans are opened one after the other
OpenSpan(r) ==
    /\ Len(spans[r]) < MaxSinkSpans
    /\ \A i \in 1..Len(spans[r]) : spans[r][i].ended
    /\ spans' = [spans EXCEPT ![r] = Append(@, NewSpanRecord(spans, r, "internal", NoSpan))]
    /\ UNCHANGED <<requestVars, sinkVars>>

\* no span has had a repeated end() yet
NoRepeatedEnd == \A q \in Requests : \A j \in 1..Len(spans[q]) : spans[q][j].endCalls < 2

\* span.end() on r's latest span, a first time or (once in a run) a second
\* time: the span is handed to the sink when end() closes it
SpanEndCall(r) ==
    /\ spans[r] # <<>>
    /\ ~spans[r][Len(spans[r])].ended \/ NoRepeatedEnd
    /\ LET sp == spans[r][Len(spans[r])]
       IN  /\ spans' = PutSpan(spans, sp.id, EndSpan(sp))
           /\ IF EndSpan(sp).exports > sp.exports
              THEN SetSink(AddToBuffer(Sink, sp.id))
              ELSE UNCHANGED sinkVars
    /\ UNCHANGED requestVars

\* the delay timer fires too early
TimerDueAtOnce == timer >= 0

\* the delay timer has run for scheduledDelayMillis
TimerDue == timer = ScheduledDelay

\* time passes while the delay timer runs
Tick ==
    /\ timer >= 0
    /\ ~TimerDue
    /\ timer' = timer + 1
    /\ UNCHANGED <<requestVars, spans, queue, exported, dropped, exporting>>

\* the delay timer fires: one export call
TimerFire ==
    /\ TimerDue
    /\ SetSink([FlushOneBatch(Sink, "timer") EXCEPT !.exporting = (queue # <<>>)])
    /\ UNCHANGED <<requestVars, spans>>

\* the export call in flight completes: what was queued meanwhile is
\* exported at once if it fills a batch, else after the delay
ExportDone ==
    /\ exporting
    /\ SetSink(IF queue = <<>> THEN [Sink EXCEPT !.exporting = FALSE]
               ELSE MaybeStartTimer([Sink EXCEPT !.exporting = FALSE, !.timer = -1], "drain"))
    /\ UNCHANGED <<requestVars, spans>>

\* an explicit drain (sdk.shutdown() flushes the span processors)
ForceFlush ==
    /\ queue # <<>>
    /\ SetSink(FlushAll(Sink))
    /\ UNCHANGED <<requestVars, spans>>

---------------------------------------------------------------------------
(* Instruments: lib/telemetry/metrics.ts.  The built-in instruments are      *)
(* kept in module variables; createCounter, createHistogram and            *)
(* createUpDownCounter go to the meter at every call.                      *)

\* calls that obtain an instrument
MaxInstrumentCalls == 3

NoBuckets == <<>>
Descriptor(name, kind, description, unit, buckets) ==
    [name |-> name, kind |-> kind, description |-> description, unit |-> unit,
     buckets |-> buckets]

\* instruments of the module (four of the seven, which are coded alike)
BuiltIns ==
    { Descriptor("http.server.request.count", "counter",
                 "Total number of HTTP requests", "requests", NoBuckets),
      Descriptor("http.server.request.duration", "histogram",
                 "Duration of HTTP requests", "ms",
                 <<10, 50, 100, 250, 500, 1000, 2500, 5000, 10000>>),
      Descriptor("http.server.active_requests", "updowncounter",
                 "Number of active HTTP requests", "requests", NoBuckets),
      Descriptor("business.orders.placed", "counter",
                 "Total number of orders placed", "orders", NoBuckets) }

BuiltInNames == {b.name : b \in BuiltIns}

\* `unit = '1'` of createCounter and createUpDownCounter, `unit = 'ms'` of
\* createHistogram
DefaultUnit(kind) == IF kind = "histogram" THEN "ms" ELSE "1"

\* what callers pass to createCounter / createHistogram / createUpDownCounter
Customs ==
    { Descriptor(n, k, d, DefaultUnit(k), NoBuckets) :
        n \in {"client.events.received"},
        k \in {"counter", "histogram", "updowncounter"},
        d \in {"Number of client-side events received", "Events"} }

NoInstruments ==
    [created |-> <<>>, cached |-> [n \in BuiltInNames |-> 0], obtained |-> <<>>]

\* getMeter().createCounter / createHistogram / createUpDownCounter: the
\* meter makes an instrument, known here by its ordinal
MeterCreate(st, d) == [st EXCEPT !.created = Append(@, d)]

\* what the caller gets back
Obtain(st, d, inst) == [st EXCEPT !.obtained = Append(@, [name |-> d.name, inst |-> inst])]

\* `if (!x) { x = getMeter().create...(...) } return x` of a built-in
GetBuiltIn ==
    /\ Len(meter.obtained) < MaxInstrumentCalls
    /\ \E b \in BuiltIns :
          meter' = IF meter.cached[b.name] = 0
                   THEN LET made == MeterCreate(meter, b)
                        IN  Obtain([made EXCEPT !.cached[b.name] = Len(made.created)],
                                   b, Len(made.created))
                   ELSE Obtain(meter, b, meter.cached[b.name])
    /\ UNCHANGED <<pc, call, ctx, spans, logs, samples, hist, outcome, result, ops, pending,
                   sinkVars, samplingVars, moduleVars, shutdownVars, ingest>>

\* createCounter(name, description, unit) and its two siblings
CreateInstrument ==
    /\ Len(meter.obtained) < MaxInstrumentCalls
    /\ \E d \in Customs :
          LET made == MeterCreate(meter, d)
          IN  meter' = Obtain(made, d, Len(made.created))
    /\ UNCHANGED <<pc, call, ctx, spans, logs, samples, hist, outcome, result, ops, pending,
                   sinkVars, samplingVars, moduleVars, shutdownVars, ingest>>

---------------------------------------------------------------------------
(* Client telemetry ingestion: handleTelemetry of app/api/telemetry/route.ts *)

\* events of one payload
MaxBatch == 2

Missing == "<missing>"
EventTypes == {"metric", "trace", "log", "other"}
EventNames == {"web_vital_lcp", "component_render", "client_error", Missing}
ClientEvents == [type : EventTypes, name : EventNames, properties : {"object", Missing}]

RECURSIVE SeqsUpTo(_, _)
\* the sequences over S of length at most n
SeqsUpTo(S, n) ==
    IF n = 0 THEN {<<>>}
    ELSE SeqsUpTo(S, n - 1)
         \cup {Append(s, x) : s \in {q \in SeqsUpTo(S, n - 1) : Len(q) = n - 1}, x \in S}

\* request bodies: text that is not JSON, the JSON value null, an object
\* without `events`, an object with an array of events
Payloads ==
    {[body |-> b, events |-> <<>>] : b \in {"invalid", "null", "object"}}
    \cup {[body |-> "object", events |-> es] : es \in SeqsUpTo(ClientEvents, MaxBatch)}

NoIngest == [state |-> "idle", payload |-> [body |-> "object", events |-> <<>>],
             at |-> 0, counted |-> <<>>, handled |-> <<>>]

\* processMetricEvent: name.startsWith and properties.value / .duration are
\* read without a check
ProcessMetricEventThrows(e) ==
    \/ e.name = Missing
    \/ e.name \in {"web_vital_lcp", "component_render"} /\ e.properties = Missing

\* processTraceEvent: `...properties` of undefined spreads nothing
ProcessTraceEventThrows(e) == FALSE

\* processLogEvent: properties.component is read for a client_error
ProcessLogEventThrows(e) == e.name = "client_error" /\ e.properties = Missing

\* switch (event.type): a type without a case does nothing
ProcessEventThrows(e) ==
    CASE e.type = "metric" -> ProcessMetricEventThrows(e)
      [] e.type = "trace" -> ProcessTraceEventThrows(e)
      [] e.type = "log" -> ProcessLogEventThrows(e)
      [] OTHER -> FALSE

\* the request arrives: `await request.json()` rejects for text that is not
\* JSON, `body.events` throws for null
TelemetryPost ==
    /\ ingest.state = "idle"
    /\ \E p \in Payloads :
          ingest' = [ingest EXCEPT !.payload = p,
                                   !.state = IF p.body = "object" THEN "running" ELSE "thrown"]
    /\ UNCHANGED <<pc, call, ctx, spans, logs, samples, hist, outcome, result, ops, pending,
                   sinkVars, samplingVars, moduleVars, shutdownVars, meter>>

\* one turn of `for (const event of events)`: the counter, then the
\* awaited handler of the event's type; what it throws leaves the loop and
\* handleTelemetry
ProcessNextEvent ==
    /\ ingest.state = "running"
    /\ ingest.at < Len(ingest.payload.events)
    /\ LET i == ingest.at + 1
           e == ingest.payload.events[i]
       IN  ingest' = IF ProcessEventThrows(e)
                     THEN [ingest EXCEPT !.at = i, !.counted = Append(@, i), !.state = "thrown"]
                     ELSE [ingest EXCEPT !.at = i, !.counted = Append(@, i),
                                         !.handled = Append(@, i)]
    /\ UNCHANGED <<pc, call, ctx, spans, logs, samples, hist, outcome, result, ops, pending,
                   sinkVars, samplingVars, moduleVars, shutdownVars, meter>>

\* return NextResponse.json({success: true, processed: events.length})
TelemetryReturn ==
    /\ ingest.state = "running"
    /\ ingest.at = Len(ingest.payload.events)
    /\ ingest' = [ingest EXCEPT !.state = "returned"]
    /\ UNCHANGED <<pc, call, ctx, spans, logs, samples, hist, outcome, result, ops, pending,
                   sinkVars, samplingVars, moduleVars, shutdownVars, meter>>

---------------------------------------------------------------------------
(* Graceful shutdown: the SIGTERM listener that initTelemetry installs     *)
(*   sdk.shutdown().then(log).catch(log error).finally(() => process.exit(0)) *)

\* a listener that exits without waiting for the drain
SigtermExitAtOnce ==
    /\ proc = "running"
    /\ proc' = "exited"
    /\ drain' = "pending"
    /\ exitCode' = 0
    /\ UNCHANGED <<pc, call, ctx, spans, logs, samples, hist, outcome, result, ops, pending,
                   sinkVars, samplingVars, moduleVars, console, ingest, meter>>

\* SIGTERM arrives: the listener calls sdk.shutdown() and returns; the
\* process goes on until the promise settles
Sigterm ==
    /\ proc = "running"
    /\ proc' = "draining"
    /\ drain' = "pending"
    /\ UNCHANGED <<pc, call, ctx, spans, logs, samples, hist, outcome, result, ops, pending,
                   sinkVars, samplingVars, moduleVars, console, exitCode, ingest, meter>>

\* the promise of sdk.shutdown() settles: fulfilled when the sinks were
\* flushed (what waited in the span sink has been passed to the exporter),
\* rejected when a sink or its exporter failed (what waited stays unsent)
DrainSettle ==
    /\ proc = "draining"
    /\ drain = "pending"
    /\ \E ok \in BOOLEAN :
          IF ok
          THEN /\ drain' = "fulfilled"
               /\ SetSink([FlushAll(Sink) EXCEPT !.timer = -1, !.exporting = FALSE])
          ELSE /\ drain' = "rejected"
               /\ UNCHANGED sinkVars
    /\ UNCHANGED <<pc, call, ctx, spans, logs, samples, hist, outcome, result, ops, pending,
                   samplingVars, moduleVars, proc, console, exitCode, ingest, meter>>

\* a chain whose finally is reached after a fulfilled drain only
ShutdownSettledSuccessOnly ==
    /\ proc = "draining"
    /\ drain = "fulfilled"
    /\ console' = Append(console, "log: shut down successfully")
    /\ proc' = "exited"
    /\ exitCode' = 0
    /\ UNCHANGED <<pc, call, ctx, spans, logs, samples, hist, outcome, result, ops, pending,
                   sinkVars, samplingVars, moduleVars, drain, ingest, meter>>

\* .then(log) / .catch(log error) / .finally(() => process.exit(0)), run
\* once the promise has settled
ShutdownSettled ==
    /\ proc = "draining"
    /\ drain \in {"fulfilled", "rejected"}
    /\ console' = Append(console, IF drain = "fulfilled" THEN "log: shut down successfully"
                                  ELSE "error: shutting down")
    /\ proc' = "exited"
    /\ exitCode' = 0
    /\ UNCHANGED <<pc, call, ctx, spans, logs, samples, hist, outcome, result, ops, pending,
                   sinkVars, samplingVars, moduleVars, drain, ingest, meter>>

---------------------------------------------------------------------------
(* The HTTP auto-instrumentation around a route handler *)

\* '@opentelemetry/instrumentation-http', when enabled, opens a span for the
\* incoming request and makes it active before the route's wrapper is called
HttpServerSpan(r) ==
    /\ pc[r] = "idle"
    /\ ctx[r] = <<>>
    /\ LET sp == NewSpanRecord(spans, r, "http", NoSpan)
       IN  /\ spans' = [spans EXCEPT ![r] = Append(@, sp)]
           /\ ctx' = [ctx EXCEPT ![r] = WithSpanActive(@, sp.id)]
    /\ UNCHANGED <<pc, call, logs, samples, hist, outcome, result, ops, pending, sinkVars,
                   processVars>>

\* the instrumentation ends its span once the response has been written
HttpServerSpanEnd(r) ==
    /\ pc[r] = "done"
    /\ ctx[r] # <<>>
    /\ GetActiveSpan(r) # call[r].server
    /\ spans' = [spans EXCEPT ![r][GetActiveSpan(r)[2]] = EndSpan(@)]
    /\ ctx' = [ctx EXCEPT ![r] = ContextRestored(@)]
    /\ UNCHANGED <<pc, call, logs, samples, hist, outcome, result, ops, pending, sinkVars,
                   processVars>>

---------------------------------------------------------------------------
(* Client telemetry of hooks.ts: the event queue and its debounced flush *)

\* events a page queues in all
MaxEvents == 3
\* the browser's clock stops here
MaxTime == 5
\* setTimeout(flushEvents, 1000): the wait, in ticks of the clock
FlushDelay == 2

\* a TelemetryEvent: the n-th event of the page, stamped with Date.now()
TelemetryEvent(n, t) == [seq |-> n, timestamp |-> t]

\* the state flushEvents leaves when it does not empty the queue
FlushEventsKeepQueue(q, out) ==
    IF q = <<>> THEN [eventQueue |-> q, sent |-> out]
    ELSE [eventQueue |-> q, sent |-> Append(out, q)]

\* flushEvents(): nothing for an empty queue; otherwise the queue is copied,
\* emptied, and the copy is handed as one payload to navigator.sendBeacon,
\* or to fetch when there is no sendBeacon
FlushEvents(q, out) ==
    IF q = <<>> THEN [eventQueue |-> q, sent |-> out]
    ELSE [eventQueue |-> <<>>, sent |-> Append(out, q)]

\* a queueEvent that sets its timer without clearing the one before
QueueEventNoClear ==
    /\ page # "unloaded"
    /\ Len(queued) < MaxEvents
    /\ now + FlushDelay <= MaxTime
    /\ LET e == TelemetryEvent(Len(queued) + 1, now)
       IN  /\ eventQueue' = Append(eventQueue, e)
           /\ queued' = Append(queued, e)
           /\ timers' = timers \cup {[handle |-> e.seq, due |-> now + FlushDelay]}
           /\ flushTimeout' = e.seq
    /\ UNCHANGED <<pc, call, ctx, spans, logs, samples, hist, outcome, result, ops, pending,
                   sinkVars, samplingVars, shutdownVars, ingest, meter, sent, now, page, timed>>

\* queueEvent(event): the event is pushed, the timer of flushTimeout is
\* cleared if flushTimeout is set, and a new timer is set for one second
\* later; its handle is kept in flushTimeout
QueueEvent ==
    /\ page # "unloaded"
    /\ Len(queued) < MaxEvents
    /\ now + FlushDelay <= MaxTime
    /\ LET e == TelemetryEvent(Len(queued) + 1, now)
       IN  /\ eventQueue' = Append(eventQueue, e)
           /\ queued' = Append(queued, e)
           /\ timers' = {t \in timers : flushTimeout = 0 \/ t.handle # flushTimeout}
                            \cup {[handle |-> e.seq, due |-> now + FlushDelay]}
           /\ flushTimeout' = e.seq
    /\ UNCHANGED <<pc, call, ctx, spans, logs, samples, hist, outcome, result, ops, pending,
                   sinkVars, samplingVars, shutdownVars, ingest, meter, sent, now, page, timed>>

\* a timer that is due calls flushEvents; flushTimeout keeps its handle
TimerFlush ==
    /\ page # "unloaded"
    /\ \E t \in timers :
          /\ t.due <= now
          /\ timers' = timers \ {t}
    /\ eventQueue' = FlushEvents(eventQueue, sent).eventQueue
    /\ sent' = FlushEvents(eventQueue, sent).sent
    /\ UNCHANGED <<pc, call, ctx, spans, logs, samples, hist, outcome, result, ops, pending,
                   sinkVars, samplingVars, shutdownVars, ingest, meter, flushTimeout, queued,
                   now, page, timed>>

\* the 'visibilitychange' listener: flushEvents() when the document has
\* become hidden, nothing when it has become visible
VisibilityChange ==
    /\ page \in {"visible", "hidden"}
    /\ page' = IF page = "visible" THEN "hidden" ELSE "visible"
    /\ eventQueue' = IF page' = "hidden" THEN FlushEvents(eventQueue, sent).eventQueue
                     ELSE eventQueue
    /\ sent' = IF page' = "hidden" THEN FlushEvents(eventQueue, sent).sent ELSE sent
    /\ UNCHANGED <<pc, call, ctx, spans, logs, samples, hist, outcome, result, ops, pending,
                   sinkVars, samplingVars, shutdownVars, ingest, meter, flushTimeout, timers,
                   queued, now, timed>>

\* the 'beforeunload' listener: flushEvents; the page is then unloaded and
\* none of its code runs any more
BeforeUnload ==
    /\ page # "unloaded"
    /\ page' = "unloaded"
    /\ eventQueue' = FlushEvents(eventQueue, sent).eventQueue
    /\ sent' = FlushEvents(eventQueue, sent).sent
    /\ UNCHANGED <<pc, call, ctx, spans, logs, samples, hist, outcome, result, ops, pending,
                   sinkVars, samplingVars, shutdownVars, ingest, meter, flushTimeout, timers,
                   queued, now, timed>>

\* time passes in the browser; a timer that is due may be called late
ClockTick ==
    /\ page # "unloaded"
    /\ now < MaxTime
    /\ now' = now + 1
    /\ UNCHANGED <<pc, call, ctx, spans, logs, samples, hist, outcome, result, ops, pending,
                   sinkVars, samplingVars, shutdownVars, ingest, meter, eventQueue,
                   flushTimeout, timers, sent, queued, page, timed>>

---------------------------------------------------------------------------
(* withMetrics of metrics.ts: the duration of an asynchronous function *)

\* calls of withMetrics that may be in progress together, on one histogram
TimedCalls == {"f", "g"}
\* performance.now() stops here
MaxElapsed == 2

\* the attributes argument: left out, or given
TimedAttributes == {Undefined, <<"operation", "find">>}

\* what fn resolves with
FnValue == <<"value">>

\* how fn can settle: it resolves with a value or rejects with what it threw
FnOutcomes ==
    {[kind |-> "resolved", val |-> FnValue]} \cup {[kind |-> "rejected", val |-> v] : v \in Thrown}

NoTimedCall ==
    [pc |-> "idle", start |-> 0, attributes |-> Undefined, outcome |-> NoOutcome,
     result |-> NoResult]

NoTimed == [calls |-> [c \in TimedCalls |-> NoTimedCall], histogram |-> <<>>, clock |-> 0]

\* histogram.record(timer.end(), attributes), for the call c
HistogramRecord(t, c) ==
    Append(t.histogram, [by |-> c, value |-> t.clock - t.calls[c].start,
                         attributes |-> t.calls[c].attributes])

\* a continuation whose sample is in the try block, after `await fn()`
MetricsWithMetricsResumeSuccessOnly(c) ==
    /\ timed.calls[c].pc = "settled"
    /\ timed' = [timed EXCEPT !.calls[c].pc = "done",
                              !.calls[c].result = timed.calls[c].outcome,
                              !.histogram = IF timed.calls[c].outcome.kind = "resolved"
                                            THEN HistogramRecord(timed, c) ELSE @]
    /\ UNCHANGED <<pc, call, ctx, spans, logs, samples, hist, outcome, result, ops, pending,
                   sinkVars, samplingVars, shutdownVars, ingest, meter, clientVars>>

\* withMetrics(fn, histogram, attributes): startTimer(), then fn is called
\* and awaited; a fn that throws before it returns a promise goes through
\* the finally block in the same stretch
MetricsWithMetricsCall(c) ==
    /\ timed.calls[c].pc = "idle"
    /\ \E a \in TimedAttributes, sync \in {NoThrow} \cup Thrown :
          LET started == [timed EXCEPT !.calls[c].start = timed.clock,
                                       !.calls[c].attributes = a]
          IN  IF sync = NoThrow
              THEN timed' = [started EXCEPT !.calls[c].pc = "running"]
              ELSE timed' = [started EXCEPT
                                !.calls[c].pc = "done",
                                !.calls[c].outcome = [kind |-> "rejected", val |-> sync],
                                !.calls[c].result = [kind |-> "rejected", val |-> sync],
                                !.histogram = HistogramRecord(started, c)]
    /\ UNCHANGED <<pc, call, ctx, spans, logs, samples, hist, outcome, result, ops, pending,
                   sinkVars, samplingVars, shutdownVars, ingest, meter, clientVars>>

\* the promise of fn settles
FnSettle(c) ==
    /\ timed.calls[c].pc = "running"
    /\ \E o \in FnOutcomes :
          timed' = [timed EXCEPT !.calls[c].pc = "settled", !.calls[c].outcome = o]
    /\ UNCHANGED <<pc, call, ctx, spans, logs, samples, hist, outcome, result, ops, pending,
                   sinkVars, samplingVars, shutdownVars, ingest, meter, clientVars>>

\* the continuation after `await fn()`: the finally block records the
\* duration, then the value is returned or the error thrown again
MetricsWithMetricsResume(c) ==
    /\ timed.calls[c].pc = "settled"
    /\ timed' = [timed EXCEPT !.calls[c].pc = "done",
                              !.calls[c].result = timed.calls[c].outcome,
                              !.histogram = HistogramRecord(timed, c)]
    /\ UNCHANGED <<pc, call, ctx, spans, logs, samples, hist, outcome, result, ops, pending,
                   sinkVars, samplingVars, shutdownVars, ingest, meter, clientVars>>

\* performance.now() moves on
PerformanceTick ==
    /\ timed.clock < MaxElapsed
    /\ timed' = [timed EXCEPT !.clock = @ + 1]
    /\ UNCHANGED <<pc, call, ctx, spans, logs, samples, hist, outcome, result, ops, pending,
                   sinkVars, samplingVars, shutdownVars, ingest, meter, clientVars>>

---------------------------------------------------------------------------
(* Initial states and specifications *)

\* the process after initTelemetry() returned, in the nodejs runtime
InitProcess ==
    /\ proc = "running"
    /\ drain = "none"
    /\ console = <<>>
    /\ exitCode = -1
    /\ ingest = NoIngest
    /\ meter = NoInstruments
    /\ eventQueue = <<>>
    /\ flushTimeout = 0
    /\ timers = {}
    /\ sent = <<>>
    /\ queued = <<>>
    /\ now = 0
    /\ page = "visible"
    /\ timed = NoTimed

InitRequests ==
    /\ InitProcess
    /\ pc = [r \in Requests |-> "idle"]
    /\ call = [r \in Requests |-> NoCall]
    /\ ctx = [r \in Requests |-> <<>>]
    /\ spans = [r \in Requests |-> <<>>]
    /\ logs = [r \in Requests |-> <<>>]
    /\ samples = [r \in Requests |-> <<>>]
    /\ hist = [r \in Requests |-> <<>>]
    /\ outcome = [r \in Requests |-> NoOutcome]
    /\ result = [r \in Requests |-> NoResult]
    /\ ops = 0
    /\ pending = [r \in Requests |-> NoThrow]
    /\ queue = <<>>
    /\ exported = <<>>
    /\ dropped = <<>>
    /\ timer = -1
    /\ exporting = FALSE

\* a development process started with no OTEL_TRACES_SAMPLER in its environment
Init ==
    /\ InitRequests
    /\ sampler = DefaultSampler
    /\ ratio = RatioDevelopment
    /\ rand = 50

RequestStep(r) ==
    \/ WithTelemetryCall(r)
    \/ TraceAsyncEnter(r)
    \/ TraceAsyncSettle(r)
    \/ TraceSync(r)
    \/ MutateActiveSpan(r)
    \/ LoggerInfo(r)
    \/ HandlerSettle(r)
    \/ Finish(r)

Next == \E r \in Requests : RequestStep(r)

\* requests served concurrently; the telemetry calls do not throw
Spec == Init /\ [][Next]_vars

NextOuter ==
    \E r \in {"A"} : HttpServerSpan(r) \/ RequestStep(r) \/ HttpServerSpanEnd(r)

\* one request, served with or without the span of the HTTP
\* auto-instrumentation around the wrapper
SpecOuter == Init /\ [][NextOuter]_vars

NextCaller ==
    \E r \in {"A"} : RequestStep(r) \/ LoggerCallWith(r) \/ EmitOtelLogWith(r)

\* one request whose handler passes context objects of its own to the log calls
SpecCaller == Init /\ [][NextCaller]_vars

NextClient == QueueEvent \/ TimerFlush \/ VisibilityChange \/ BeforeUnload \/ ClockTick

\* a page that queues events while time passes and its visibility changes
SpecClient == Init /\ [][NextClient]_vars

\* the browser's clock advances and a timer that is due is called
SpecClientLive == SpecClient /\ WF_vars(ClockTick) /\ WF_vars(TimerFlush)

NextTimed ==
    \/ \E c \in TimedCalls :
          MetricsWithMetricsCall(c) \/ FnSettle(c) \/ MetricsWithMetricsResume(c)
    \/ PerformanceTick

\* calls of metrics.withMetrics in progress together
SpecTimed == Init /\ [][NextTimed]_vars

NextFault == \E r \in {"A"} : RequestStep(r) \/ FinishFault(r)

\* one request, and a telemetry call made after its handler may throw
SpecFault == Init /\ [][NextFault]_vars

\* the random generator of trace ids moves on
NextTraceId ==
    /\ \E d \in Draws \ {rand} : rand' = d
    /\ UNCHANGED <<pc, call, ctx, spans, logs, samples, hist, outcome, result, ops, pending,
                   sinkVars, sampler, ratio, moduleVars, shutdownVars, ingest, meter>>

\* a process started in production or in development, with any sampler
\* its environment can name
InitSampling ==
    /\ InitRequests
    /\ sampler \in EnvSamplers
    /\ ratio \in Ratios
    /\ rand \in Draws

NextSampling == (\E r \in {"A"} : RequestStep(r)) \/ NextTraceId

\* one request whose spans are sampled by the sampler of the process
SpecSampling == InitSampling /\ [][NextSampling]_vars

NextShutdown ==
    \/ proc = "running" /\ \E r \in Requests : OpenSpan(r) \/ SpanEndCall(r)
    \/ proc = "running" /\ (Tick \/ TimerFire \/ ExportDone)
    \/ Sigterm
    \/ DrainSettle
    \/ ShutdownSettled

\* the process ends spans into the batched sink until SIGTERM stops it
SpecShutdown == Init /\ [][NextShutdown]_vars

\* the event loop runs a ready callback: the listener's continuation runs
\* once the promise has settled; nothing makes the drain itself settle
SpecShutdownLive == SpecShutdown /\ WF_vars(ShutdownSettled)

NextIngest == TelemetryPost \/ ProcessNextEvent \/ TelemetryReturn

\* one request to the client-telemetry endpoint
SpecIngest == Init /\ [][NextIngest]_vars

NextInstruments == GetBuiltIn \/ CreateInstrument

\* code that obtains instruments, in any order
SpecInstruments == Init /\ [][NextInstruments]_vars

MetricsOnlyStep(r) ==
    \/ WithMetricsCall(r)
    \/ TraceAsyncEnter(r)
    \/ TraceAsyncSettle(r)
    \/ TraceSync(r)
    \/ MutateActiveSpan(r)
    \/ LoggerInfo(r)
    \/ HandlerSettle(r)
    \/ WithMetricsResume(r)

NextMetricsOnly == \E r \in Requests : MetricsOnlyStep(r)

\* requests served by handlers wrapped with withMetrics
SpecMetricsOnly == Init /\ [][NextMetricsOnly]_vars

NextExport ==
    \/ \E r \in Requests : OpenSpan(r) \/ SpanEndCall(r)
    \/ Tick
    \/ TimerFire
    \/ ExportDone
    \/ ForceFlush

\* the batched span sink fed by the spans two requests end
SpecExport == Init /\ [][NextExport]_vars

HandlerStep(r) ==
    \/ RequestStep(r)
    \/ LoggerCall(r)
    \/ EmitOtelLog(r)
    \/ TraceSyncWithEvent(r)
    \/ RecordExceptionCall(r)

NextHandler == \E r \in {"A"} : HandlerStep(r)

\* one request whose handler uses the whole of the telemetry helpers
SpecHandler == Init /\ [][NextHandler]_vars

---------------------------------------------------------------------------
(* Properties *)

\* r's invocation is instrumented (its path matches no skipPaths entry)
Instrumented(r) == pc[r] # "idle" /\ ~call[r].skipped

\* r's instrumented invocation has settled
Completed(r) == pc[r] = "done" /\ ~call[r].skipped

ServerSpan(r) == SpanAt(spans, call[r].server)

RECURSIVE IndexOf(_, _)
\* the position of the last x in seq, 0 if there is none
IndexOf(seq, x) ==
    IF seq = <<>> THEN 0
    ELSE IF seq[Len(seq)] = x THEN Len(seq)
    ELSE IndexOf(SubSeq(seq, 1, Len(seq) - 1), x)

\* the number of elements of seq that satisfy Test
CountIf(seq, Test(_)) == Cardinality({i \in 1..Len(seq) : Test(seq[i])})

IsDecrement(m) == m.inst = "http.server.active_requests" /\ m.value = -1

\* what the wrapper did for r after the handler settled
AfterSettled(r) == SubSeq(hist[r], IndexOf(hist[r], "settled") + 1, Len(hist[r]))

(* C1: guaranteed cleanup.  Once an instrumented call whose handler threw has
   settled, the active-requests counter is back at its pre-call value (the
   call's own additions for its route sum to 0) and the server span is closed
   with status error. *)
C1_GuaranteedCleanup ==
    \A r \in Requests :
        (Completed(r) /\ outcome[r].kind = "throw") =>
            /\ SumOf(samples[r], "http.server.active_requests", call[r].path) = 0
            /\ ServerSpan(r).ended
            /\ ServerSpan(r).status = "error"

(* C2: on every exit path of an instrumented call the server span is ended
   exactly once and the active-requests counter is decremented exactly once,
   and neither happens before the handler has settled. *)
C2_EndAndDecrementOnce ==
    \A r \in Requests :
        Instrumented(r) =>
            IF pc[r] = "done"
            THEN /\ ServerSpan(r).ended
                 /\ ServerSpan(r).endCalls = 1
                 /\ CountIf(samples[r], IsDecrement) = 1
                 /\ IndexOf(hist[r], "settled") < IndexOf(hist[r], "end")
                 /\ IndexOf(hist[r], "settled") < IndexOf(hist[r], "decrement")
            ELSE /\ ~ServerSpan(r).ended
                 /\ ServerSpan(r).endCalls = 0
                 /\ CountIf(samples[r], IsDecrement) = 0

\* one instrumented call has settled after a throw, another after a response
C2_Witness ==
    \E r, q \in Requests :
        /\ Completed(r) /\ outcome[r].kind = "throw"
        /\ Completed(q) /\ outcome[q].kind = "return"

(* C3: concurrent isolation.  Whatever the interleaving of the requests,
   every span, span mutation and log produced by the code of request r is
   attributed to r's own trace and spans, never to those of another request:
   a span r creates is in r's trace with a parent of r's, a span carries only
   the events and attributes r's code put on it, and a log r emits in its
   handler carries the ids of one of r's spans (of r's server trace when the
   call is instrumented). *)
C3_ConcurrentIsolation ==
    \A r \in Requests :
        /\ \A i \in 1..Len(spans[r]) :
              LET sp == spans[r][i]
              IN  /\ sp.trace[2] = r
                  /\ sp.parent # NoSpan => sp.parent[1] = r
                  /\ Instrumented(r) => sp.trace = ServerSpan(r).trace
                  /\ \A k \in 1..Len(sp.events) : sp.events[k][2] = r
                  /\ sp.attrs \subseteq {r}
        /\ \A i \in 1..Len(logs[r]) :
              LET l == logs[r][i]
              IN  l.msg = "handler" =>
                    IF Instrumented(r)
                    THEN l.trace_id = ServerSpan(r).trace /\ l.span_id[1] = r
                    ELSE \/ l.trace_id = ZeroTraceId /\ l.span_id = ZeroSpanId
                         \/ l.trace_id # ZeroTraceId /\ l.trace_id[2] = r /\ l.span_id[1] = r

\* two instrumented requests are in their handlers at once: one is suspended
\* inside a traceAsync span, the other has emitted a log
C3_Witness ==
    \E r, q \in Requests :
        /\ r # q
        /\ pc[r] = "handler" /\ Instrumented(r) /\ Depth(r) > 0
        /\ pc[q] = "handler" /\ Instrumented(q)
        /\ \E i \in 1..Len(logs[q]) : logs[q][i].msg = "handler"

AllSpans == UNION {{spans[r][i] : i \in 1..Len(spans[r])} : r \in Requests}

RECURSIVE Ancestors(_)
\* the ids of the spans above the span with this id
Ancestors(id) ==
    IF SpanAt(spans, id).parent = NoSpan THEN {}
    ELSE {SpanAt(spans, id).parent} \cup Ancestors(SpanAt(spans, id).parent)

(* C4: parent-child linkage.  Every span created under an active span has
   the trace id of its parent, and its span id differs from that of each of
   its ancestors and of every other span. *)
C4_ParentChildLinkage ==
    /\ \A sp \in AllSpans :
          sp.parent # NoSpan =>
              /\ sp.trace = SpanAt(spans, sp.parent).trace
              /\ sp.id \notin Ancestors(sp.id)
    /\ \A r, q \in Requests : \A i \in 1..Len(spans[r]) : \A j \in 1..Len(spans[q]) :
          (r # q \/ i # j) => spans[r][i].id # spans[q][j].id

\* a span nested two deep inside a server span
C4_Witness ==
    \E sp \in AllSpans :
        /\ sp.parent # NoSpan
        /\ SpanAt(spans, sp.parent).parent # NoSpan
        /\ SpanAt(spans, SpanAt(spans, sp.parent).parent).kind = "server"

(* C7: when the handler of an instrumented call returns a response with
   status s, the server span has http.status_code = s, and its status is
   error with message "HTTP <s>" if s >= 400 and ok if s < 400. *)
C7_ResponseStatus ==
    \A r \in Requests :
        (Completed(r) /\ outcome[r].kind = "return") =>
            LET s == outcome[r].status
            IN  /\ ServerSpan(r).httpStatus = s
                /\ IF s >= 400
                   THEN ServerSpan(r).status = "error" /\ ServerSpan(r).message = <<"HTTP", s>>
                   ELSE ServerSpan(r).status = "ok"

\* responses on both sides of the limit: 400 and 399
C7_Witness ==
    \E r, q \in Requests :
        /\ Completed(r) /\ outcome[r].kind = "return" /\ outcome[r].status = 400
        /\ Completed(q) /\ outcome[q].kind = "return" /\ outcome[q].status = 399

\* the status the wrapper hands to recordHttpRequest for r
RecordedStatus(r) ==
    IF outcome[r].kind = "return" THEN outcome[r].status ELSE 500

(* C8: HTTP metric classification.  A call of recordHttpRequest with status
   s adds exactly 1 to the request counter and records exactly one duration
   sample, both tagged http.status_class = "<floor(s/100)>xx", and adds
   exactly 1 to the error counter if and only if s >= 400. *)
C8_HttpMetricClassification ==
    \A r \in Requests :
        (\E i \in 1..Len(hist[r]) : hist[r][i] = "recordHttpRequest") =>
            LET s == RecordedStatus(r)
                Tagged(m) == m.status = s /\ m.class = <<s \div 100, "xx">>
                IsCount(m) == m.inst = "http.server.request.count"
                IsDuration(m) == m.inst = "http.server.request.duration"
                IsError(m) == m.inst = "http.server.error.count"
                CountOk(m) == IsCount(m) /\ m.value = 1 /\ Tagged(m)
                DurationOk(m) == IsDuration(m) /\ Tagged(m)
                ErrorOk(m) == IsError(m) /\ m.value = 1 /\ Tagged(m)
            IN  /\ CountIf(samples[r], IsCount) = 1
                /\ CountIf(samples[r], CountOk) = 1
                /\ CountIf(samples[r], IsDuration) = 1
                /\ CountIf(samples[r], DurationOk) = 1
                /\ CountIf(samples[r], IsError) = (IF s >= 400 THEN 1 ELSE 0)
                /\ CountIf(samples[r], ErrorOk) = (IF s >= 400 THEN 1 ELSE 0)

\* a 404 response and a 200 response have been recorded
C8_Witness ==
    \E r, q \in Requests :
        /\ Completed(r) /\ outcome[r].kind = "return" /\ outcome[r].status = 404
        /\ Completed(q) /\ outcome[q].kind = "return" /\ outcome[q].status = 200

(* C5: when the handler of an instrumented call throws e, the wrapped call
   rejects with the very same e. *)
C5_RethrowsSameError ==
    \A r \in Requests :
        (Completed(r) /\ outcome[r].kind = "throw") =>
            result[r].kind = "rejected" /\ result[r].val = outcome[r].val

IsErrorLog(l) == l.level = "error" /\ l.msg = "Unhandled error in API route"

IsSynthetic500(m) == m.inst = "http.server.request.count" /\ m.status = 500

(* C6: when the handler of an instrumented call throws, then before the span
   is ended and before the error is re-thrown, in this order: the exception
   is recorded on the span, the span status is set to error with the error's
   message, HTTP metrics are recorded once with status 500, and one
   error-level log is emitted. *)
C6_ErrorPathOrder ==
    \A r \in Requests :
        (Completed(r) /\ outcome[r].kind = "throw") =>
            /\ AfterSettled(r) = << "recordException", "setStatus", "recordHttpRequest",
                                    "logError", "rethrow", "end", "decrement" >>
            /\ ServerSpan(r).status = "error"
            /\ ServerSpan(r).message = outcome[r].val.message
            /\ CountIf(samples[r], IsSynthetic500) = 1
            /\ CountIf(logs[r], IsErrorLog) = 1

IsRequestLog(l) == l.msg = "HTTP request received"

IsResponseOrErrorLog(l) == l.msg \in {"HTTP response sent", "Unhandled error in API route"}

IsCountSample(m) == m.inst = "http.server.request.count"

IsDurationSample(m) == m.inst = "http.server.request.duration"

(* C9: every instrumented call produces exactly one request-count sample,
   exactly one duration sample, exactly one request log and exactly one
   response-or-error log, whether the handler returns or throws. *)
C9_OneOfEachSignal ==
    \A r \in Requests :
        Completed(r) =>
            /\ CountIf(samples[r], IsCountSample) = 1
            /\ CountIf(samples[r], IsDurationSample) = 1
            /\ CountIf(logs[r], IsRequestLog) = 1
            /\ CountIf(logs[r], IsResponseOrErrorLog) = 1

(* C10: if the handler returns a response, the wrapped call resolves with
   that response even when a telemetry call made after the handler throws. *)
C10_FaultKeepsSuccess ==
    \A r \in Requests :
        (Completed(r) /\ outcome[r].kind = "return") =>
            result[r].kind = "resolved" /\ result[r].status = outcome[r].status

\* r has been called with a path that begins with an options.skipPaths entry
OnSkipPath(r) ==
    /\ pc[r] # "idle"
    /\ \E skip \in SkipPaths :
          /\ Len(skip) <= Len(call[r].path)
          /\ \A i \in 1..Len(skip) : call[r].path[i] = skip[i]

IsWrapperLog(l) ==
    l.msg \in {"HTTP request received", "HTTP response sent", "Unhandled error in API route"}

IsServerSpan(sp) == sp.kind = "server"

(* C11: skip-path bypass.  For a request whose path starts with an entry of
   options.skipPaths the wrapper runs the handler directly and settles as the
   handler does, and produces no telemetry of its own: no measurement (the
   active-requests counter and the HTTP metrics are untouched), no server
   span, no request, response or error log, no wrapper step. *)
C11_SkipPathBypass ==
    \A r \in Requests :
        OnSkipPath(r) =>
            /\ samples[r] = <<>>
            /\ hist[r] = <<>>
            /\ CountIf(spans[r], IsServerSpan) = 0
            /\ CountIf(logs[r], IsWrapperLog) = 0
            /\ pc[r] = "done" =>
                  IF outcome[r].kind = "return"
                  THEN result[r].kind = "resolved" /\ result[r].status = outcome[r].status
                  ELSE result[r].kind = "rejected" /\ result[r].val = outcome[r].val

\* two skipped calls have settled, one by a response and one by a throw
C11_Witness ==
    \E r, q \in Requests :
        /\ OnSkipPath(r) /\ pc[r] = "done" /\ outcome[r].kind = "return"
        /\ OnSkipPath(q) /\ pc[q] = "done" /\ outcome[q].kind = "throw"

IsHandlerLog(l) == l.msg \in {"handler", "otel"}

(* C12: log correlation.  Every log record emitted in a step, through the
   Logger methods or emitOtelLog, carries the trace id and span id of the span
   that is active for the emitting code at that moment; with no active span
   it carries the all-zero sentinel ids; and emitting it raises nothing. *)
C12_LogCorrelation ==
    [][\A r \in Requests :
          \A i \in (Len(logs[r]) + 1)..Len(logs'[r]) :
             /\ IF ctx[r] # <<>>
                THEN /\ logs'[r][i].span_id = ctx[r][Len(ctx[r])]
                     /\ logs'[r][i].trace_id =
                            spans[ctx[r][Len(ctx[r])][1]][ctx[r][Len(ctx[r])][2]].trace
                ELSE /\ logs'[r][i].span_id = <<"0000000000000000">>
                     /\ logs'[r][i].trace_id = <<"00000000000000000000000000000000">>
             /\ IsHandlerLog(logs'[r][i]) => pending'[r] = pending[r]]_vars

\* a request has emitted a record with the sentinel ids (no span was active)
\* and an emitOtelLog record with the ids of a span opened by traceAsync
C12_Witness ==
    \E r \in Requests :
        /\ \E i \in 1..Len(logs[r]) : logs[r][i].span_id = ZeroSpanId
        /\ \E i \in 1..Len(logs[r]) :
              /\ logs[r][i].msg = "otel"
              /\ logs[r][i].span_id # ZeroSpanId
              /\ SpanAt(spans, logs[r][i].span_id).kind = "internal"

IsExceptionEvent(e) == e[1] = "exception"

\* span i of request r is an internal span that this step closes
ClosesScopedSpan(r, i) ==
    /\ spans'[r][i].kind = "internal"
    /\ spans'[r][i].ended
    /\ (i > Len(spans[r]) \/ ~spans[r][i].ended)

(* C13: scoped-run status.  When traceSync or traceAsync closes its span
   after fn threw, whatever the thrown value, the span has status error (with
   the error's message when the value is an Error) and carries the recorded
   exception; when fn returned normally the span has status ok. *)
C13_ScopedRunStatus ==
    [][\A r \in Requests :
          \A i \in 1..Len(spans'[r]) :
             ClosesScopedSpan(r, i) =>
                IF pending'[r] = NoThrow
                THEN spans'[r][i].status = "ok"
                ELSE /\ spans'[r][i].status = "error"
                     /\ pending'[r].type = "Error" =>
                           spans'[r][i].message = pending'[r].message
                     /\ pending'[r].type # "nullish" =>
                           CountIf(spans'[r][i].events, IsExceptionEvent) > 0]_vars

\* the span with this id is one whose fn is still running
FnRunning(r, id) == \E k \in 1..Len(ctx[r]) : ctx[r][k] = id

(* C14: scoped-run close.  A span opened by traceSync or traceAsync is not
   ended while its fn is running (for traceAsync: before fn's promise has
   settled), and once the call is over, by return or by throw, the span is
   ended and end() has been called on it exactly once. *)
C14_ScopedRunClose ==
    \A r \in Requests :
        \A i \in 1..Len(spans[r]) :
            spans[r][i].kind = "internal" =>
                IF FnRunning(r, spans[r][i].id)
                THEN ~spans[r][i].ended /\ spans[r][i].endCalls = 0
                ELSE spans[r][i].ended /\ spans[r][i].endCalls = 1

\* one request's scoped run was left by a throw, another's by a return
C14_Witness ==
    \E r, q \in Requests :
        /\ pc[r] = "handler" /\ pending[r] # NoThrow
        /\ \E i \in 1..Len(spans[r]) : spans[r][i].kind = "internal" /\ spans[r][i].ended
        /\ pc[q] = "handler" /\ pending[q] = NoThrow
        /\ \E i \in 1..Len(spans[q]) : spans[q][i].kind = "internal" /\ spans[q][i].ended

\* the active span of r's chain after this step
ActiveAfter(r) == IF ctx'[r] = <<>> THEN <<>> ELSE ctx'[r][Len(ctx'[r])]

(* C15: context restore.  A step that opens a scoped span and leaves its fn
   running makes that span the active one; a step that runs fn to its end
   puts what fn adds to the active span on the new span and on no older one;
   and when a scoped run is over, by return or by throw, the active span of
   the caller is the one that was active when the run began (the parent of
   the span the run opened). *)
C15_ContextRestore ==
    [][\A r \in Requests :
          /\ \A i \in 1..Len(spans'[r]) :
                /\ (i > Len(spans[r]) /\ ~spans'[r][i].ended) =>
                       ActiveAfter(r) = spans'[r][i].id
                /\ ClosesScopedSpan(r, i) => ActiveAfter(r) = spans'[r][i].parent
          /\ Len(spans'[r]) > Len(spans[r]) =>
                \A i \in 1..Len(spans[r]) : spans'[r][i].events = spans[r][i].events]_vars

\* a scoped run nested in another has ended by a throw, a traceSync run
\* whose fn added an event is over, and the handler goes on
C15_Witness ==
    \E r \in Requests :
        /\ pc[r] = "handler"
        /\ \E i \in 1..Len(spans[r]) :
              /\ spans[r][i].kind = "internal" /\ spans[r][i].ended
              /\ spans[r][i].parent # NoSpan
              /\ CountIf(spans[r][i].events, IsExceptionEvent) > 0
        /\ \E i \in 1..Len(spans[r]) :
              /\ spans[r][i].kind = "internal" /\ spans[r][i].ended
              /\ \E k \in 1..Len(spans[r][i].events) : spans[r][i].events[k][1] = "event"

\* this step is a call of addSpanAttributes, addSpanEvent or recordException:
\* the one handler call that opens no span and emits no log
IsMutatorStep ==
    /\ ops' = ops + 1
    /\ logs' = logs
    /\ \A r \in Requests : Len(spans'[r]) = Len(spans[r])

(* C16: the active-span mutators are safe.  A call of addSpanAttributes,
   addSpanEvent or recordException changes no span but the active span of the
   calling code, changes nothing at all when no span is active, and raises
   nothing. *)
C16_MutatorsSafe ==
    [][IsMutatorStep =>
          /\ pending' = pending
          /\ \A r \in Requests :
                \A i \in 1..Len(spans[r]) :
                   spans'[r][i] # spans[r][i] =>
                      ctx[r] # <<>> /\ ctx[r][Len(ctx[r])] = <<r, i>>]_vars

RECURSIVE Flatten(_)
\* the items of the export calls, in order
Flatten(batches) ==
    IF batches = <<>> THEN <<>> ELSE Head(batches).items \o Flatten(Tail(batches))

\* how often the sink holds or has exported or refused the span with this id
TimesHanded(id, q, e, d) ==
    LET f == Flatten(e)
    IN  Cardinality({k \in 1..Len(q) : q[k] = id})
        + Cardinality({k \in 1..Len(f) : f[k] = id})
        + Cardinality({k \in 1..Len(d) : d[k] = id})

(* C17: exactly-once close.  Once a span is closed it stays closed: a further
   end() changes nothing of the span but the count of the calls, and hands
   the span to the export batch no second time; the span is in the sink's
   queue, exports and refusals at most once in all. *)
C17_ExactlyOnceClose ==
    [][\A r \in Requests :
          \A i \in 1..Len(spans[r]) :
             /\ TimesHanded(<<r, i>>, queue', exported', dropped') <= 1
             /\ spans[r][i].ended =>
                   /\ spans'[r][i] = [spans[r][i] EXCEPT !.endCalls = spans'[r][i].endCalls]
                   /\ TimesHanded(<<r, i>>, queue', exported', dropped')
                        = TimesHanded(<<r, i>>, queue, exported, dropped)]_vars

\* end() has been called twice on a span that has been exported
C17_Witness ==
    \E r \in Requests :
        \E i \in 1..Len(spans[r]) :
            /\ spans[r][i].endCalls = 2
            /\ \E k \in 1..Len(Flatten(exported)) : Flatten(exported)[k] = <<r, i>>

\* this step closes a span of some request (the span is handed to the sink)
ClosesSpan(r, i) == ~spans[r][i].ended /\ spans'[r][i].ended

(* C18: batch flush triggers.  When the sink is idle and a closed span makes
   maxExportBatchSize items queued, the same step makes one export call with
   exactly these items, whatever the delay timer shows; an idle sink never
   keeps a full batch waiting; an export call made for the size has exactly
   maxExportBatchSize items and none has more; and an export call made by the
   delay timer is made only when scheduledDelayMillis has elapsed since the
   timer was armed, so that a single queued item is not exported earlier
   (but by an explicit drain). *)
C18_BatchFlushTriggers ==
    [][/\ \A r \in Requests :
             \A i \in 1..Len(spans[r]) :
                (ClosesSpan(r, i) /\ ~exporting /\ Len(queue) = MaxExportBatchSize - 1) =>
                    /\ exported' = Append(exported, [items |-> Append(queue, <<r, i>>),
                                                     cause |-> "size"])
                    /\ Len(exported'[Len(exported')].items) = MaxExportBatchSize
       /\ ~exporting' => Len(queue') < MaxExportBatchSize
       /\ \A k \in (Len(exported) + 1)..Len(exported') :
             /\ Len(exported'[k].items) <= MaxExportBatchSize
             /\ exported'[k].cause \in {"size", "timer", "drain", "flush"}
             /\ exported'[k].cause = "timer" => timer = ScheduledDelay
             /\ exported'[k].cause \in {"size", "drain"} =>
                   Len(exported'[k].items) = MaxExportBatchSize
             /\ exported'[k].cause = "size" =>
                   \E r \in Requests : \E i \in 1..Len(spans[r]) : ClosesSpan(r, i)]_vars

\* a full batch has been exported for its size, and a single item by the timer
C18_Witness ==
    /\ \E k \in 1..Len(exported) :
          exported[k].cause = "size" /\ Len(exported[k].items) = MaxExportBatchSize
    /\ \E k \in 1..Len(exported) :
          exported[k].cause = "timer" /\ Len(exported[k].items) = 1

(* C19: overflow policy.  A closed span handed to a sink whose queue holds
   maxQueueSize items is dropped: the queue is left as it is, the span is
   still closed for its producer and nothing is raised; the queue never holds
   more than maxQueueSize items; and a drain of a full queue exports exactly
   the maxQueueSize items that were queued, in their order. *)
C19_OverflowDropsNewest ==
    [][/\ Len(queue') <= MaxQueueSize
       /\ \A r \in Requests :
             \A i \in 1..Len(spans[r]) :
                (ClosesSpan(r, i) /\ Len(queue) = MaxQueueSize) =>
                    /\ queue' = queue
                    /\ exported' = exported
                    /\ dropped' = Append(dropped, <<r, i>>)
                    /\ pending' = pending
       /\ (Len(queue) = MaxQueueSize /\ queue' = <<>>) =>
             /\ Flatten(exported') = Flatten(exported) \o queue
             /\ Len(Flatten(exported')) - Len(Flatten(exported)) = MaxQueueSize]_vars

\* a span was dropped by a full queue, and the queue has been drained since
C19_Witness ==
    /\ dropped # <<>>
    /\ queue = <<>>
    /\ \E k \in 1..Len(exported) : exported[k].cause = "flush"
    /\ \A k \in 1..Len(Flatten(exported)) : Flatten(exported)[k] # dropped[1]

\* how often the span with this id has been passed to the exporter
TimesExported(id) ==
    LET f == Flatten(exported)
    IN  Cardinality({k \in 1..Len(f) : f[k] = id})

(* C20: the export buffer is exactly-once.  Whatever the interleaving of the
   requests' appends with timer-driven and explicit drains, a span that is
   not closed is nowhere in the sink, and a closed span is in exactly one
   place: waiting in the queue, or passed to the exporter exactly once, or
   dropped by the overflow policy and never exported. *)
C20_ExportExactlyOnce ==
    \A r \in Requests :
        \A i \in 1..Len(spans[r]) :
            /\ TimesExported(<<r, i>>) <= 1
            /\ TimesHanded(<<r, i>>, queue, exported, dropped)
                 = (IF spans[r][i].ended THEN 1 ELSE 0)
            /\ (spans[r][i].ended /\ queue = <<>>) =>
                  TimesExported(<<r, i>>)
                    = (IF \E k \in 1..Len(dropped) : dropped[k] = <<r, i>> THEN 0 ELSE 1)

\* spans of two requests have left in one export call, and calls were made
\* by the timer and by an explicit drain, and nothing is left in the queue
C20_Witness ==
    /\ queue = <<>>
    /\ \E k \in 1..Len(exported) :
          \E a, b \in 1..Len(exported[k].items) :
              exported[k].items[a][1] # exported[k].items[b][1]
    /\ \E k \in 1..Len(exported) : exported[k].cause = "timer"
    /\ \E k \in 1..Len(exported) : exported[k].cause = "flush"

\* the span that starts the trace of the span with this id
RootOf(id) ==
    IF SpanAt(spans, id).parent = NoSpan THEN SpanAt(spans, id)
    ELSE CHOOSE a \in AllSpans : a.id \in Ancestors(id) /\ a.parent = NoSpan

(* C21: root sampling uses the configured ratio.  The sampled flag of a
   trace is decided at its root span by comparing the draw of the trace
   against TELEMETRY_CONFIG.sampling.ratio: a root span is sampled exactly
   when its draw lies below the ratio (none at ratio 0, all at ratio 1), and
   every other span has the flag of its root. *)
C21_RootSamplingUsesRatio ==
    \A sp \in AllSpans :
        /\ sp.parent = NoSpan => (sp.sampled <=> sp.draw < ratio)
        /\ sp.sampled = RootOf(sp.id).sampled

(* C22: sampling inheritance.  Every span created by a nested traceSync or
   traceAsync call below a root span that is not sampled is not sampled
   either, whatever the sampler, the ratio and the draw at the time the
   descendant is created. *)
C22_SamplingInheritance ==
    \A sp \in AllSpans :
        (sp.parent # NoSpan /\ ~RootOf(sp.id).sampled) => ~sp.sampled

\* under a root that is not sampled, a span nested two deep was created
\* when the generator's draw was one that a ratio sampler accepts
C22_Witness ==
    \E sp \in AllSpans :
        /\ sp.kind = "internal"
        /\ Cardinality(Ancestors(sp.id)) = 2
        /\ ~RootOf(sp.id).sampled
        /\ sampler.name = "traceidratio"
        /\ RootOf(sp.id).draw >= sampler.arg
        /\ rand < sampler.arg

(* C23: shutdown ordering.  After the termination signal the process exits
   only once the promise of sdk.shutdown() has settled; once it has settled
   the exit follows whether it was fulfilled or rejected; a rejection is
   written to the console as an error and the exit code is 0 all the same. *)
C23_ShutdownOrdering ==
    /\ proc = "exited" =>
          /\ drain \in {"fulfilled", "rejected"}
          /\ exitCode = 0
          /\ Len(console) = 1
          /\ console[1] = (IF drain = "rejected" THEN "error: shutting down"
                           ELSE "log: shut down successfully")
    /\ proc # "exited" => exitCode = -1 /\ console = <<>>
    /\ (proc = "draining" /\ drain \in {"fulfilled", "rejected"}) => ENABLED ShutdownSettled

\* the process has exited after a drain that failed with spans still unsent
C23_Witness ==
    /\ proc = "exited"
    /\ drain = "rejected"
    /\ queue # <<>>
    /\ exitCode = 0

(* C24: shutdown liveness.  Once the termination signal has been handled the
   process eventually exits, also when the drain never completes. *)
C24_ShutdownLiveness == (proc = "draining") ~> (proc = "exited")

(* C25: ingestion independence.  handleTelemetry does not throw, whatever
   the payload, and every event of the batch is processed, whatever the
   events before it: a malformed event (no name, no properties, a type that
   is not known) stops neither the handler nor the events after it. *)
C25_IngestionIndependence ==
    /\ ingest.state # "thrown"
    /\ ingest.state = "returned" =>
          ingest.counted = [i \in 1..Len(ingest.payload.events) |-> i]

\* the first instrument created on the meter under this name
FirstCreated(name) ==
    CHOOSE i \in 1..Len(meter.created) :
        /\ meter.created[i].name = name
        /\ \A j \in 1..(i - 1) : meter.created[j].name # name

(* C26: instrument memoization.  Whatever the sequence of calls, an
   instrument of a given name is created at most once, every call that
   obtains an instrument under that name gets that same instrument, and its
   description, unit and bucket boundaries are those of the first
   registration; for the built-in instruments and for those obtained with
   createCounter, createHistogram and createUpDownCounter. *)
C26_InstrumentMemoization ==
    /\ \A i, j \in 1..Len(meter.created) :
          meter.created[i].name = meter.created[j].name => i = j
    /\ \A k \in 1..Len(meter.obtained) :
          meter.obtained[k].inst = FirstCreated(meter.obtained[k].name)

(* The part of C26 about the built-in instruments alone. *)
BuiltInsMemoized ==
    /\ \A i, j \in 1..Len(meter.created) :
          (meter.created[i].name \in BuiltInNames
             /\ meter.created[i].name = meter.created[j].name) => i = j
    /\ \A k \in 1..Len(meter.obtained) :
          meter.obtained[k].name \in BuiltInNames =>
              meter.obtained[k].inst = FirstCreated(meter.obtained[k].name)

IsResponseLog(l) == l.msg = "HTTP response sent"

IsLogHttpResponseCall(name) == name = "logHttpResponse"

(* C27: response log level.  Each call of logHttpResponse emits exactly one
   log record, at level error when the status code is 500 or more, at level
   warn when it is 400 to 499, and at level info otherwise. *)
C27_ResponseLogLevel ==
    \A r \in Requests :
        /\ CountIf(logs[r], IsResponseLog) = CountIf(hist[r], IsLogHttpResponseCall)
        /\ \A i \in 1..Len(logs[r]) :
              IsResponseLog(logs[r][i]) =>
                  /\ outcome[r].kind = "return"
                  /\ outcome[r].status >= 500 => logs[r][i].level = "error"
                  /\ (outcome[r].status >= 400 /\ outcome[r].status < 500) =>
                        logs[r][i].level = "warn"
                  /\ outcome[r].status < 400 => logs[r][i].level = "info"

\* a response with status 500 and one with status 404 have been logged
C27_Witness ==
    \E r, q \in Requests :
        /\ Completed(r) /\ outcome[r].kind = "return" /\ outcome[r].status = 500
        /\ CountIf(logs[r], IsResponseLog) = 1
        /\ Completed(q) /\ outcome[q].kind = "return" /\ outcome[q].status = 404
        /\ CountIf(logs[q], IsResponseLog) = 1

IsActiveRequestsSample(m) == m.inst = "http.server.active_requests"

(* C28: the metrics-only wrapper.  An invocation of a handler wrapped with
   withMetrics records the HTTP request metrics exactly once, after the
   handler settled: with the response's status when the handler returned
   (the wrapped call resolves with that response), with status 500 when it
   threw (the wrapped call rejects with the same value).  The wrapper's own
   steps open no span, emit no log, leave the active context alone and add
   nothing to the active-requests counter. *)
C28_MetricsOnlyWrapper ==
    [][\A r \in Requests :
          call'[r].wrapper = "withMetrics" =>
              /\ (pc[r] = "idle" /\ pc'[r] = "handler") =>
                    /\ spans' = spans /\ logs' = logs /\ ctx' = ctx
                    /\ samples' = samples
              /\ pc'[r] # "done" => CountIf(samples'[r], IsCountSample) = 0
              /\ (pc[r] = "settled" /\ pc'[r] = "done") =>
                    LET s == IF outcome[r].kind = "return" THEN outcome[r].status ELSE 500
                        Recorded(m) == m.status = s /\ m.route = call[r].path
                        CountOk(m) == IsCountSample(m) /\ Recorded(m) /\ m.value = 1
                        DurationOk(m) == IsDurationSample(m) /\ Recorded(m)
                    IN  /\ spans' = spans /\ logs' = logs /\ ctx' = ctx
                        /\ CountIf(samples'[r], IsCountSample) = 1
                        /\ CountIf(samples'[r], CountOk) = 1
                        /\ CountIf(samples'[r], IsDurationSample) = 1
                        /\ CountIf(samples'[r], DurationOk) = 1
                        /\ CountIf(samples'[r], IsActiveRequestsSample) = 0
                        /\ result'[r] =
                              (IF outcome[r].kind = "return"
                               THEN [kind |-> "resolved", status |-> s, val |-> NoThrow]
                               ELSE [kind |-> "rejected", status |-> 0, val |-> outcome[r].val])
    ]_vars

\* one wrapped handler threw undefined after it had opened a span and
\* logged, the other returned a 404
C28_Witness ==
    \E r, q \in Requests :
        /\ pc[r] = "done" /\ call[r].wrapper = "withMetrics"
        /\ result[r].kind = "rejected" /\ result[r].val = NullishThrown
        /\ spans[r] # <<>> /\ logs[r] # <<>>
        /\ pc[q] = "done" /\ call[q].wrapper = "withMetrics"
        /\ result[q].kind = "resolved" /\ result[q].status = 404

RECURSIVE NetActive(_, _)
\* the value of the active-requests counter for a route: what the requests
\* of the set rs have added to it
NetActive(rs, route) ==
    IF rs = {} THEN 0
    ELSE LET r == CHOOSE x \in rs : TRUE
         IN  SumOf(samples[r], "http.server.active_requests", route)
             + NetActive(rs \ {r}, route)

\* the instrumented invocations for a route that have started and not completed
InFlight(route) ==
    {r \in Requests : Instrumented(r) /\ pc[r] # "done" /\ call[r].path = route}

(* C29: active-requests invariant.  In every reachable state the value of
   the active-requests counter for a route is the number of instrumented
   invocations for that route that have started and not yet completed: never
   negative, and 0 when none is in flight.  The increment and the decrement
   of an invocation carry the route of that invocation. *)
C29_ActiveRequests ==
    /\ \A p \in Paths :
          /\ NetActive(Requests, p) = Cardinality(InFlight(p))
          /\ NetActive(Requests, p) >= 0
          /\ InFlight(p) = {} => NetActive(Requests, p) = 0
    /\ \A r \in Requests :
          \A i \in 1..Len(samples[r]) :
              IsActiveRequestsSample(samples[r][i]) =>
                  Instrumented(r) /\ samples[r][i].route = call[r].path

\* two invocations for one route were in flight together; one has completed
\* with a rejection, the other is still in its handler: the counter of the
\* route stands at 1
C29_Witness ==
    \E r, q \in Requests :
        /\ Completed(r) /\ result[r].kind = "rejected"
        /\ Instrumented(q) /\ pc[q] = "handler"
        /\ call[r].path = call[q].path
        /\ NetActive(Requests, call[q].path) = 1

\* the wrapper's steps up to the handler's settling
StepsBefore ==
    <<"increment", "logHttpRequest", "startActiveSpan", "handler", "settled">>

\* the steps named by the claim after a response, and after a throw
StepsOnReturn ==
    StepsBefore \o <<"setAttribute", "setStatus", "recordHttpRequest", "logHttpResponse",
                     "return", "end", "decrement">>
StepsOnThrow ==
    StepsBefore \o <<"recordException", "setStatus", "recordHttpRequest", "logError",
                     "rethrow", "end", "decrement">>

(* C30: request-wrapper step order.  In every instrumented invocation the
   steps are, in this order: active-requests increment, incoming-request
   log, server span opened, handler invoked with that span active; then,
   once the handler has settled, the status attribute, the span status, the
   HTTP metrics and the response log, or else the error-path telemetry
   (exception recorded, span status, HTTP metrics, error log); then span end
   and active-requests decrement. *)
C30_StepOrder ==
    \A r \in Requests :
        Instrumented(r) =>
            /\ pc[r] = "handler" =>
                  /\ hist[r] = SubSeq(StepsBefore, 1, 4)
                  /\ ctx[r] # <<>> /\ ctx[r][1] = call[r].server
                  /\ Depth(r) = 0 => GetActiveSpan(r) = call[r].server
            /\ pc[r] = "settled" => hist[r] = StepsBefore
            /\ pc[r] = "done" =>
                  hist[r] = (IF outcome[r].kind = "return" THEN StepsOnReturn ELSE StepsOnThrow)

RECURSIVE IsSubsequence(_, _)
\* s is t with some elements left out
IsSubsequence(s, t) ==
    IF s = <<>> THEN TRUE
    ELSE IF t = <<>> THEN FALSE
    ELSE IF Head(s) = Head(t) THEN IsSubsequence(Tail(s), Tail(t))
    ELSE IsSubsequence(s, Tail(t))

(* The order alone: the steps an instrumented invocation does take are in
   the order of C30, and it always begins with the four steps up to the
   handler and ends with span end and decrement. *)
StepOrderKept ==
    \A r \in Requests :
        Instrumented(r) =>
            /\ IsSubsequence(hist[r], IF outcome[r].kind = "throw" THEN StepsOnThrow
                                      ELSE StepsOnReturn)
            /\ SubSeq(hist[r], 1, 4) = SubSeq(StepsBefore, 1, 4)
            /\ pc[r] = "done" =>
                  SubSeq(hist[r], Len(hist[r]) - 1, Len(hist[r])) = <<"end", "decrement">>

\* the step of r is the start of a non-skipped withTelemetry invocation
StartsInstrumented(r) ==
    /\ pc[r] = "idle" /\ pc'[r] = "handler"
    /\ call'[r].wrapper = "withTelemetry" /\ ~call'[r].skipped

\* the log record l carries the ids of r's server span
HasServerSpanIds(l, r) ==
    l.trace_id = ServerSpan(r).trace /\ l.span_id = call[r].server

\* C31: the incoming-request log of a withTelemetry invocation is emitted
\* before the server span is opened: it carries the trace id and span id of
\* the context that was active before the wrapper ran (the all-zero ids when
\* there was none) and its span id is never the server span's; the response
\* log and the error log carry the ids of the server span.
C31_RequestLogContext ==
    [][\A r \in Requests :
          /\ StartsInstrumented(r) =>
                /\ Len(logs'[r]) = Len(logs[r]) + 1
                /\ IsRequestLog(logs'[r][Len(logs'[r])])
                /\ logs'[r][Len(logs'[r])].trace_id = GetTraceContext(spans, r).traceId
                /\ logs'[r][Len(logs'[r])].span_id = GetTraceContext(spans, r).spanId
                /\ logs'[r][Len(logs'[r])].span_id # call'[r].server
          /\ \A i \in DOMAIN logs'[r] :
                IsResponseOrErrorLog(logs'[r][i]) =>
                    /\ logs'[r][i].trace_id = SpanAt(spans', call'[r].server).trace
                    /\ logs'[r][i].span_id = call'[r].server]_vars

\* an invocation that ran inside the span of the HTTP instrumentation has
\* completed: its request log carries that span's id, its response or error
\* log the server span's
C31_Witness ==
    \E r \in Requests :
        /\ Completed(r)
        /\ \E i, j \in DOMAIN logs[r] :
              /\ IsRequestLog(logs[r][i])
              /\ logs[r][i].span_id \notin {ZeroSpanId, call[r].server}
              /\ IsResponseOrErrorLog(logs[r][j])
              /\ HasServerSpanIds(logs[r][j], r)

\* the same with no span active around the wrapper: the request log carries
\* the all-zero ids
RequestLogSentinelReached ==
    \E r \in Requests :
        /\ Completed(r)
        /\ \E i \in DOMAIN logs[r] :
              IsRequestLog(logs[r][i]) /\ logs[r][i].span_id = ZeroSpanId


\* the step of r is the wrapper's continuation after a handler that returned
ResumesAfterReturn(r) ==
    /\ pc[r] = "settled" /\ pc'[r] = "done"
    /\ call[r].wrapper = "withTelemetry" /\ ~call[r].skipped
    /\ outcome[r].kind = "return"

\* the handler called recordException(err, msg) on sp: the exception event
\* is there and the status is the error status with the handler's message
RecordedByHandler(sp) ==
    /\ \E i \in DOMAIN sp.events : IsExceptionEvent(sp.events[i])
    /\ sp.status = "error" /\ sp.message = <<"Failed">>

\* C32: when the handler has called recordException(err, msg) on the server
\* span and then returns a response with status s, the setStatus of the
\* wrapper is the last write: the span ends with error "HTTP <s>" for
\* s >= 400 and with ok for s < 400, and its events, the exception event
\* among them, are the ones the handler left.
C32_WrapperStatusLastWrite ==
    [][\A r \in Requests :
          (ResumesAfterReturn(r) /\ RecordedByHandler(ServerSpan(r))) =>
              LET after == SpanAt(spans', call[r].server)
                  s == outcome[r].status
              IN  /\ after.ended
                  /\ after.events = ServerSpan(r).events
                  /\ after.status = (IF s >= ErrorStatusMin THEN "error" ELSE "ok")
                  /\ after.message = (IF s >= ErrorStatusMin THEN <<"HTTP", s>>
                                      ELSE Undefined)]_vars

\* a handler recorded an exception on the server span and returned a status
\* below 400: the span has ended ok and still holds the exception event
C32_Witness ==
    \E r \in Requests :
        /\ Completed(r) /\ outcome[r].kind = "return"
        /\ outcome[r].status < ErrorStatusMin
        /\ ServerSpan(r).status = "ok" /\ ServerSpan(r).ended
        /\ \E i \in DOMAIN ServerSpan(r).events : IsExceptionEvent(ServerSpan(r).events[i])

\* the same for a returned status of 400 or more: the status message is the
\* wrapper's, not the handler's
HandlerMessageReplaced ==
    \E r \in Requests :
        /\ Completed(r) /\ outcome[r].kind = "return"
        /\ ServerSpan(r).status = "error" /\ ServerSpan(r).message # <<"Failed">>
        /\ \E i \in DOMAIN ServerSpan(r).events : IsExceptionEvent(ServerSpan(r).events[i])


\* the step of r hands one more record to a logger, made from an object the
\* caller passed
LogsWithCallerObject(r) ==
    /\ Len(logs'[r]) = Len(logs[r]) + 1
    /\ "given" \in DOMAIN logs'[r][Len(logs'[r])]

\* the record l carries the ids of the context that is active in r
CarriesActiveIds(l, r) ==
    /\ l.fields["trace_id"] = GetTraceContext(spans, r).traceId
    /\ l.fields["span_id"] = GetTraceContext(spans, r).spanId
    /\ l.fields["trace_id"] # CallerValue /\ l.fields["span_id"] # CallerValue

\* the keys of the caller's object other than those in K are in the record
\* with the caller's values
PassesThroughExcept(l, K) ==
    \A k \in DOMAIN l.given \ K : k \in DOMAIN l.fields /\ l.fields[k] = l.given[k]

\* C33 as stated: for every log call the record carries the ids of the
\* active context (or the all-zero ids) whatever trace_id and span_id the
\* caller supplied, and every other key the caller supplied is in the record
\* unchanged.
C33_OnlyTraceFieldsReplaced ==
    [][\A r \in Requests :
          LogsWithCallerObject(r) =>
              /\ CarriesActiveIds(logs'[r][Len(logs'[r])], r)
              /\ PassesThroughExcept(logs'[r][Len(logs'[r])], {"trace_id", "span_id"})]_vars

\* C33 amended: the record carries the ids of the active context (or the
\* all-zero ids) whatever trace_id and span_id the caller supplied; the
\* Logger methods pass every other key of the caller through unchanged;
\* emitOtelLog also sets 'service.name' to the configured service name,
\* replacing a caller-supplied one, and passes the remaining keys through.
C33_TraceFieldsNotSpoofed ==
    [][\A r \in Requests :
          LogsWithCallerObject(r) =>
              LET l == logs'[r][Len(logs'[r])]
              IN  /\ CarriesActiveIds(l, r)
                  /\ IF l.msg = "otel"
                     THEN /\ l.fields["service.name"] = ServiceName
                          /\ PassesThroughExcept(l, {"trace_id", "span_id", "service.name"})
                     ELSE PassesThroughExcept(l, {"trace_id", "span_id"})]_vars

\* emitOtelLog was called inside the server span with attributes holding
\* trace_id, span_id, 'service.name' and userId: the record carries the
\* span's ids, the configured service name and the caller's userId
C33_Witness ==
    \E r \in Requests : \E i \in DOMAIN logs[r] :
        /\ "given" \in DOMAIN logs[r][i]
        /\ logs[r][i].msg = "otel"
        /\ DOMAIN logs[r][i].given = CallerKeys
        /\ logs[r][i].span_id = call[r].server
        /\ logs[r][i].fields["service.name"] = ServiceName
        /\ logs[r][i].fields["userId"] = CallerValue

\* a Logger method was called inside the server span with a context holding
\* all the keys: only trace_id and span_id differ from what the caller gave
LoggerKeepsCallerKeys ==
    \E r \in Requests : \E i \in DOMAIN logs[r] :
        /\ "given" \in DOMAIN logs[r][i]
        /\ logs[r][i].msg = "handler"
        /\ DOMAIN logs[r][i].given = CallerKeys
        /\ logs[r][i].span_id = call[r].server
        /\ logs[r][i].fields["service.name"] = CallerValue
        /\ logs[r][i].fields["userId"] = CallerValue


RECURSIVE SentEvents(_)
\* the events of a sequence of payloads, in the order they were sent
SentEvents(payloads) ==
    IF payloads = <<>> THEN <<>> ELSE Head(payloads) \o SentEvents(Tail(payloads))

\* C34: the client event queue is exactly-once and ordered. At every step
\* of any interleaving of queueEvent with timer, visibilitychange and
\* beforeunload flushes, the sent payloads followed by the queue are exactly
\* the events queued so far in their order (each event is in one place only,
\* and once sent it is in exactly one payload); a step that sends takes the
\* whole of a non-empty queue as one payload and leaves the queue empty; a
\* flush of an empty queue sends nothing.
C34_QueueExactlyOnceOrdered ==
    [][/\ SentEvents(sent') \o eventQueue' = queued'
       /\ sent' # sent => /\ eventQueue # <<>>
                          /\ sent' = Append(sent, eventQueue)
                          /\ eventQueue' = <<>>
       /\ eventQueue = <<>> => sent' = sent]_vars

\* three events went out in two payloads; nothing is waiting and no timer
\* is pending
C34_Witness ==
    /\ Len(queued) = MaxEvents
    /\ Len(sent) = 2
    /\ eventQueue = <<>>
    /\ SentEvents(sent) = queued
    /\ page = "visible"
    /\ timers = {}

\* a flush found the queue empty: one payload went out, and both the timer
\* and the listener of visibilitychange have called flushEvents
EmptyFlushReached ==
    /\ sent # <<>> /\ eventQueue = <<>> /\ timers = {} /\ flushTimeout # 0
    /\ Len(sent) = 1 /\ page = "hidden" /\ now >= FlushDelay


\* the event with sequence number n is waiting in the queue
Waiting(n) == \E i \in DOMAIN eventQueue : eventQueue[i].seq = n

\* the event with sequence number n is in a sent payload
Sent(n) == \E i \in DOMAIN SentEvents(sent) : SentEvents(sent)[i].seq = n

\* at most one flush timer is pending, and one is pending whenever events
\* are waiting
OneTimerWhileWaiting ==
    /\ Cardinality(timers) <= 1
    /\ eventQueue # <<>> => timers # {}

\* a queueEvent step leaves exactly the timer it has set, due one wait from
\* now; a step in which a timer fires happens only when a whole wait has
\* passed since the last event was queued
WaitRestarted ==
    /\ queued' # queued =>
          timers' = {[handle |-> flushTimeout', due |-> now + FlushDelay]}
    /\ (timers' # timers /\ queued' = queued) =>
          \A i \in DOMAIN queued : queued[i].timestamp + FlushDelay <= now

\* C35: client debounce. At most one flush timer is pending at any time and
\* one is pending whenever the queue is non-empty; each queueEvent restarts
\* the wait, so that a timer-driven flush happens only once the wait has
\* passed with no new event; and, events having stopped arriving, every
\* queued event is eventually sent (by the timer, or earlier when the page
\* becomes hidden or unloads).
C35_Debounce ==
    /\ []OneTimerWhileWaiting
    /\ [][WaitRestarted]_vars
    /\ \A n \in 1..MaxEvents : Waiting(n) ~> Sent(n)

\* two events queued at different times went out together in the one
\* payload of the timer that the second event had set
C35_Witness ==
    /\ Len(sent) = 1 /\ Len(sent[1]) = 2
    /\ sent[1][1].timestamp < sent[1][2].timestamp
    /\ now >= sent[1][2].timestamp + FlushDelay
    /\ flushTimeout = 2 /\ timers = {} /\ eventQueue = <<>>
    /\ page = "visible"


\* the samples the call c has recorded on the histogram
SamplesOf(c) == SelectSeq(timed.histogram, LAMBDA m : m.by = c)

\* C36: metrics.withMetrics(fn, histogram, attributes) records exactly one
\* duration sample, with the given attributes, after fn has settled, whether
\* fn resolved or rejected, and then settles as fn did: it returns fn's
\* value or throws again the very value fn threw; there is no sample while
\* fn has not settled.
C36_DurationRecordedOnce ==
    \A c \in TimedCalls :
        /\ timed.calls[c].pc \in {"idle", "running", "settled"} => SamplesOf(c) = <<>>
        /\ timed.calls[c].pc = "done" =>
              /\ Len(SamplesOf(c)) = 1
              /\ SamplesOf(c)[1].attributes = timed.calls[c].attributes
              /\ SamplesOf(c)[1].value >= 0
              /\ timed.calls[c].outcome \in FnOutcomes
              /\ timed.calls[c].result = timed.calls[c].outcome

\* two calls have completed, one whose fn resolved and one whose fn rejected
\* with undefined after some time: each has its one sample
C36_Witness ==
    /\ timed.calls["f"].pc = "done" /\ timed.calls["g"].pc = "done"
    /\ timed.calls["f"].result = [kind |-> "resolved", val |-> FnValue]
    /\ timed.calls["g"].result = [kind |-> "rejected", val |-> NullishThrown]
    /\ Len(timed.histogram) = 2
    /\ SamplesOf("g")[1].value > 0

====
